---- MODULE Spec2Model ----
(***************************************************************************)
(* Note-app synchronisation core: the Express/Prisma note routes and the   *)
(* Socket.IO handlers of backend/server.js, and the mobile SyncService     *)
(* with the InMemoryStorage it imports.  SyncService calls that storage    *)
(* through the interface of the SQLite OfflineStorage; `storage` says      *)
(* which of the two classes answers the calls of a device.                 *)
(*                                                                         *)
(* Time is a logical clock that advances by one on every committed server  *)
(* write; `new Date()` anywhere reads that clock.                          *)
(*                                                                         *)
(* Spec is the whole system.  The properties are checked under parts of    *)
(* it, each a restriction of Next: SpecServer and SpecRace (the note       *)
(* routes under arbitrary and under concurrent callers), SpecSession (one  *)
(* socket session of an editing device), SpecReconnect and SpecMissed (a   *)
(* receiving device that loses and regains its socket), SpecOfflineEdit    *)
(* (edits made while offline), SpecReplay and SpecReplayOnline (the        *)
(* outbound queue replayed on OfflineStorage, over HTTP and with the       *)
(* socket connected), SpecCoordinator (the passes alone, with every call   *)
(* settling), SpecEditCalls (updateNote and deleteNote called with any     *)
(* id), SpecFanOut (the routes' pushes to the sockets of other clients),   *)
(* SpecMerge (one sync response applied twice to any small store),         *)
(* SpecPolicy (the socket's reconnect timer, local disconnects and forced  *)
(* reconnects), SpecListeners (addSyncListener, removeSyncListener and     *)
(* notifyListeners over callbacks that return, throw or unsubscribe),      *)
(* SpecOverlap (a second updateNote called while the first awaits the      *)
(* server), SpecCreateReplay and SpecCreateOnline (createNote with its     *)
(* POST replayed from the queue, and answered online) and SpecDelta (the   *)
(* 'sync-request' handler suspended at its query while routes commit).     *)
(***************************************************************************)
EXTENDS FiniteSets, Integers, Naturals, Sequences, TLC

VARIABLES
    notes,          \* server: prisma.note table, id -> row
    noteVersions,   \* server: prisma.noteVersion table (snapshots), a sequence
    clock,          \* logical time, one tick per committed write
    reqs,           \* HTTP connection -> its request in flight, or its response
    rooms,          \* server: Socket.IO rooms, user -> set of socket ids
    sockUser,       \* server: socket.userId of each socket ("none" when unset)
    sockDevice,     \* server: socket.deviceId of each socket ("none" when unset)
    srvOpen,        \* server: sockets whose 'disconnect' has not been handled
    userSessions,   \* server: userSessions map, user -> set of socket ids
    deviceSessions, \* server: deviceSessions map, device id -> socket id
    deviceDb,       \* server: prisma.device table, device id -> row
    toClient,       \* socket id -> messages emitted by the server, not yet handled
    toServer,       \* socket id -> messages emitted by the device, not yet handled
    local,          \* device -> InMemoryStorage.notes, id -> stored object
    syncQueue,      \* device -> InMemoryStorage.syncQueue
    lastSync,       \* device -> InMemoryStorage.lastSync
    isOnline,       \* device -> SyncService.isOnline
    isSyncing,      \* device -> SyncService.isSyncing
    sock,           \* device -> SyncService.socket: [id, phase], id 0 is null
    events,         \* device -> events the device's latest step delivered to the sync listeners
    created,        \* device -> number of ids generateId() has handed out
    flow,           \* device -> the suspended createNote/updateNote/deleteNote/sync call
    nextSock,       \* number of sockets opened so far
    storage,        \* device -> the storage class behind SyncService's storage calls
    replay,         \* device -> processSyncQueue's queueItems and the position of its loop
    raised,         \* device -> the error updateNote last threw to its caller ("none": never)
    reconnectTimer, \* device -> the 'disconnect' handler's setTimeout(..., 3000) is pending
    syncListeners,  \* device -> this.syncListeners, the callbacks in registration order
    heard,          \* device -> what the last notifyListeners call did: the callbacks it invoked
    peerConn        \* sockets of other clients whose transport is connected

dbVars == <<notes, noteVersions, clock>>
sessVars == <<rooms, sockUser, sockDevice, srvOpen, userSessions, deviceSessions, deviceDb>>
listenerVars == <<syncListeners, heard>>
wiringVars == <<storage, replay, raised, reconnectTimer, listenerVars>>
devVars == <<local, syncQueue, lastSync, isOnline, isSyncing, events, created, flow, wiringVars>>
connVars == <<sock, nextSock, peerConn>>
chanVars == <<toClient, toServer>>
vars == <<notes, noteVersions, clock, reqs, rooms, sockUser, sockDevice, srvOpen,
          userSessions, deviceSessions, deviceDb, toClient, toServer, local,
          syncQueue, lastSync, isOnline, isSyncing, sock, events, created, flow, nextSock,
          storage, replay, raised, reconnectTimer, syncListeners, heard, peerConn>>

----------------------------------------------------------------------------
(* Bounds *)

MaxNotes == 1       \* rows the note table may hold
MaxCommits == 2     \* committed writes (clock ticks)
MaxSocks == 2       \* sockets a device opens over its life
MaxChan == 1        \* messages waiting in one direction of a socket
MaxPeers == 2       \* sockets opened by clients other than the device
MaxMerge == 2       \* ids of the notes of a sync response merged on its own
MaxListeners == 3   \* callbacks registered with addSyncListener at one time
MaxReplayNotes == 2 \* rows the note table may hold when creates are replayed
MaxQueue == 2       \* entries the device's sync queue may hold
MaxCreates == 1     \* notes created on the device

(* Participants *)

Users == {"u1", "u2"}
Devices == {"d1"}
WebConns == {"w1", "w2"}      \* HTTP connections of other clients (web app, other devices)
SockIds == 1..(MaxSocks + MaxPeers)
PeerSocks == (MaxSocks + 1)..(MaxSocks + MaxPeers)   \* the sockets of other clients
DevConns == {"d1", "d1b"}     \* the HTTP calls of the device's axiosClient: one, and one made meanwhile
Conns == WebConns \cup DevConns

(* the call a device makes while another of its calls awaits the server *)
SecondCall(d) == "d1b"

(* the user a device is signed in as *)
UserOf(d) == "u1"

(* request bodies the clients send: what the web app's user types, and the device's *)
WebPayloads == { [title |-> "a", content |-> "x"] }
DevPayloads == { [title |-> "b", content |-> "y"] }
Payloads == WebPayloads \cup DevPayloads

(* clientVersion of a PUT body: <<>> when the field is absent, <<v>> otherwise *)
ClientVersions == { <<>> } \cup { <<v>> : v \in 0..MaxCommits }

(* JavaScript truthiness of a clientVersion: undefined and 0 are falsy *)
Truthy(cv) == Len(cv) = 1 /\ cv[1] # 0

NoNote == [id |-> 0, owner |-> "none", title |-> "", content |-> "", version |-> 0,
           updatedAt |-> 0, deletedAt |-> 0]

FreeReq == [stage |-> "free", user |-> "none", op |-> "none", id |-> 0, title |-> "",
            content |-> "", cv |-> <<>>, read |-> NoNote, status |-> 0,
            body |-> NoNote, list |-> <<>>]

(* a request as authMiddleware hands it to the route: req.user, req.params, req.body *)
NewRequest(u, op, id, title, content, cv) ==
    [FreeReq EXCEPT !.stage = "sent", !.user = u, !.op = op, !.id = id,
                    !.title = title, !.content = content, !.cv = cv]

(* the answer on the wire: status and body, for the request of that op and id *)
Respond(r, status, body) ==
    [FreeReq EXCEPT !.stage = "responded", !.op = r.op, !.id = r.id, !.status = status, !.body = body]

----------------------------------------------------------------------------
(* Server: fan-out *)

(* the sockets of a room whose transport still delivers *)
TransportUp(s) ==
    \/ \E d \in Devices : sock[d].id = s /\ sock[d].phase = "connected"
    \/ s \in peerConn
Delivering(u) == { s \in rooms[u] : TransportUp(s) }

PushMsg(type, note) == [type |-> type, note |-> note, notes |-> <<>>, syncTime |-> 0]

(* io.emit(type, ...): to every connected socket *)
Broadcast_Everyone(u, msg) ==
    [s \in SockIds |-> IF TransportUp(s) THEN Append(toClient[s], msg) ELSE toClient[s]]

(* io.to(`user-${id}`).emit(type, ...) *)
Broadcast(u, msg) ==
    [s \in SockIds |-> IF s \in Delivering(u) THEN Append(toClient[s], msg) ELSE toClient[s]]

(* new Date() when c writes have been committed *)
Now(c) == c + 1

(* @updatedAt of the Prisma schema: every write stamps the row with the current time *)
Touch(t) == t

----------------------------------------------------------------------------
(* Server: note routes *)

(* app.post('/api/notes'): req.body.id is not read, the table assigns the id *)
SrvCreateWithin(k, rows) ==
    LET r == reqs[k]
        id == Cardinality(DOMAIN notes) + 1
        t == Now(clock + 1)
        newNote == [id |-> id, owner |-> r.user, title |-> r.title,
                    content |-> r.content, version |-> 1,
                    updatedAt |-> Touch(t), deletedAt |-> 0]
    IN /\ r.stage = "sent" /\ r.op = "POST"
       /\ id <= rows /\ clock < MaxCommits
       /\ notes' = [i \in DOMAIN notes \cup {id} |-> IF i = id THEN newNote ELSE notes[i]]
       /\ clock' = clock + 1
       /\ toClient' = Broadcast(r.user, PushMsg("note:created", newNote))
       /\ reqs' = [reqs EXCEPT ![k] = Respond(r, 201, newNote)]
       /\ UNCHANGED <<noteVersions, sessVars, toServer, devVars, connVars>>

SrvCreate(k) == SrvCreateWithin(k, MaxNotes)

(* a write that leaves the version as it is *)
IncrementVersion_Keep(v) == v

(* version: { increment: 1 } of prisma.note.update *)
IncrementVersion(v) == v + 1

(* the version check of app.put('/api/notes/:id') *)
VersionConflict(cv, note) == Truthy(cv) /\ cv[1] < note.version

(* a route that writes the snapshot before it looks at the owner and the version *)
SrvPutFind_SnapshotFirst(k) ==
    LET r == reqs[k]
        note == IF r.id \in DOMAIN notes THEN notes[r.id] ELSE NoNote
    IN /\ r.stage = "sent" /\ r.op = "PUT"
       /\ noteVersions' = Append(noteVersions,
             [noteId |-> r.id, title |-> note.title, contentSnapshot |-> note.content])
       /\ reqs' = [reqs EXCEPT ![k] =
             IF note = NoNote \/ note.owner # r.user THEN Respond(r, 403, NoNote)
             ELSE IF VersionConflict(r.cv, note) THEN Respond(r, 409, note)
             ELSE [r EXCEPT !.stage = "checked", !.cv = << >>, !.read = note]]
       /\ UNCHANGED <<notes, clock, sessVars, chanVars, devVars, connVars>>

(* app.put('/api/notes/:id') up to the first await after findUnique *)
SrvPutFind(k) ==
    LET r == reqs[k]
        note == IF r.id \in DOMAIN notes THEN notes[r.id] ELSE NoNote
    IN /\ r.stage = "sent" /\ r.op = "PUT"
       /\ reqs' = [reqs EXCEPT ![k] =
             IF note = NoNote \/ note.owner # r.user THEN Respond(r, 403, NoNote)
             ELSE IF VersionConflict(r.cv, note) THEN Respond(r, 409, note)
             ELSE [r EXCEPT !.stage = "checked", !.cv = <<>>, !.read = note]]
       /\ UNCHANGED <<dbVars, sessVars, chanVars, devVars, connVars>>

(* prisma.noteVersion.create: snapshot of the row that findUnique returned *)
SrvPutSnapshot(k) ==
    LET r == reqs[k]
    IN /\ r.stage = "checked" /\ r.op = "PUT"
       /\ noteVersions' = Append(noteVersions,
             [noteId |-> r.id, title |-> r.read.title, contentSnapshot |-> r.read.content])
       /\ reqs' = [reqs EXCEPT ![k] = [r EXCEPT !.stage = "snapshotted"]]
       /\ UNCHANGED <<notes, clock, sessVars, chanVars, devVars, connVars>>

(* prisma.note.update with version: { increment: 1 }, the push and the answer *)
SrvPutUpdate(k) ==
    LET r == reqs[k]
        t == Now(clock + 1)
        updatedNote == [notes[r.id] EXCEPT !.title = r.title, !.content = r.content,
                                           !.version = IncrementVersion(@),
                                           !.updatedAt = Touch(t)]
    IN /\ r.stage = "snapshotted" /\ r.op = "PUT"
       /\ clock < MaxCommits
       /\ notes' = [notes EXCEPT ![r.id] = updatedNote]
       /\ clock' = clock + 1
       /\ toClient' = Broadcast(r.user, PushMsg("note:updated", updatedNote))
       /\ reqs' = [reqs EXCEPT ![k] = Respond(r, 200, updatedNote)]
       /\ UNCHANGED <<noteVersions, sessVars, toServer, devVars, connVars>>

(* app.delete('/api/notes/:id') up to the first await after findUnique *)
SrvDeleteFind(k) ==
    LET r == reqs[k]
        note == IF r.id \in DOMAIN notes THEN notes[r.id] ELSE NoNote
    IN /\ r.stage = "sent" /\ r.op = "DELETE"
       /\ reqs' = [reqs EXCEPT ![k] =
             IF note = NoNote \/ note.owner # r.user THEN Respond(r, 403, NoNote)
             ELSE [r EXCEPT !.stage = "checked", !.cv = <<>>, !.read = note]]
       /\ UNCHANGED <<dbVars, sessVars, chanVars, devVars, connVars>>

(* the soft delete: deletedAt, version: { increment: 1 }, the push and the answer *)
SrvDeleteUpdate(k) ==
    LET r == reqs[k]
        t == Now(clock + 1)
        deletedNote == [notes[r.id] EXCEPT !.deletedAt = t, !.version = IncrementVersion(@),
                                           !.updatedAt = Touch(t)]
    IN /\ r.stage = "checked" /\ r.op = "DELETE"
       /\ clock < MaxCommits
       /\ notes' = [notes EXCEPT ![r.id] = deletedNote]
       /\ clock' = clock + 1
       /\ toClient' = Broadcast(r.user,
             PushMsg("note:deleted", [NoNote EXCEPT !.id = r.id, !.version = deletedNote.version]))
       /\ reqs' = [reqs EXCEPT ![k] = Respond(r, 204, NoNote)]
       /\ UNCHANGED <<noteVersions, sessVars, toServer, devVars, connVars>>

(* the rows 1..n, newest createdAt first (ids are handed out in creation order) *)
RECURSIVE NotesDesc(_)
NotesDesc(n) == IF n = 0 THEN <<>> ELSE <<notes[n]>> \o NotesDesc(n - 1)

(* app.get('/api/notes'): every row of the caller, req.query.since is not read *)
SrvList(k) ==
    LET r == reqs[k]
        Mine(n) == n.owner = r.user
    IN /\ r.stage = "sent" /\ r.op = "GET"
       /\ reqs' = [reqs EXCEPT ![k] =
             [Respond(r, 200, NoNote) EXCEPT
                 !.list = SelectSeq(NotesDesc(Cardinality(DOMAIN notes)), Mine)]]
       /\ UNCHANGED <<dbVars, sessVars, chanVars, devVars, connVars>>

----------------------------------------------------------------------------
(* Other clients of the API (the web app, other devices): plain HTTP callers *)

WebPost(c, u, p) ==
    /\ reqs[c].stage = "free"
    /\ reqs' = [reqs EXCEPT ![c] = NewRequest(u, "POST", 0, p.title, p.content, <<>>)]
    /\ UNCHANGED <<dbVars, sessVars, chanVars, devVars, connVars>>

WebPut(c, u, id, p, cv) ==
    /\ reqs[c].stage = "free"
    /\ reqs' = [reqs EXCEPT ![c] = NewRequest(u, "PUT", id, p.title, p.content, cv)]
    /\ UNCHANGED <<dbVars, sessVars, chanVars, devVars, connVars>>

WebDelete(c, u, id) ==
    /\ reqs[c].stage = "free"
    /\ reqs' = [reqs EXCEPT ![c] = NewRequest(u, "DELETE", id, "", "", <<>>)]
    /\ UNCHANGED <<dbVars, sessVars, chanVars, devVars, connVars>>

(* the caller takes the answer; the connection is free again *)
WebReceive(k) ==
    /\ k \in WebConns /\ reqs[k].stage = "responded"
    /\ reqs' = [reqs EXCEPT ![k] = FreeReq]
    /\ UNCHANGED <<dbVars, sessVars, chanVars, devVars, connVars>>

----------------------------------------------------------------------------
(* Server: Socket.IO handlers *)

Put(f, k, v) == [x \in DOMAIN f \cup {k} |-> IF x = k THEN v ELSE f[x]]

SockMsg(type, userId, deviceId, lastSyncTime) ==
    [type |-> type, userId |-> userId, deviceId |-> deviceId, lastSyncTime |-> lastSyncTime]

(* socket.emit(type, ...) to one socket, dropped when its transport is gone *)
EmitTo(s, msg) ==
    IF TransportUp(s)
    THEN [toClient EXCEPT ![s] = Append(@, msg)]
    ELSE toClient

(* prisma.device.upsert of 'register-device' *)
UpsertDevice(db, deviceId, userId, s) ==
    IF deviceId \in DOMAIN db
    THEN [db EXCEPT ![deviceId] = [@ EXCEPT !.sessionToken = s, !.isActive = TRUE]]
    ELSE Put(db, deviceId, [userId |-> userId, sessionToken |-> s, isActive |-> TRUE])

(* socket.on('register-device') *)
SrvRegister(s) ==
    /\ s \in srvOpen /\ toServer[s] # << >> /\ Head(toServer[s]).type = "register-device"
    /\ LET m == Head(toServer[s])
           db == UpsertDevice(deviceDb, m.deviceId, m.userId, s)
           activeDevices == { i \in DOMAIN db : db[i].userId = m.userId /\ db[i].isActive }
       IN /\ sockUser' = [sockUser EXCEPT ![s] = m.userId]
          /\ sockDevice' = [sockDevice EXCEPT ![s] = m.deviceId]
          /\ userSessions' = [userSessions EXCEPT ![m.userId] = @ \cup {s}]
          /\ deviceSessions' = Put(deviceSessions, m.deviceId, s)
          /\ rooms' = [rooms EXCEPT ![m.userId] = @ \cup {s}]
          /\ deviceDb' = db
          /\ toClient' = EmitTo(s, [PushMsg("devices-updated", NoNote) EXCEPT
                                      !.syncTime = Cardinality(activeDevices)])
    /\ toServer' = [toServer EXCEPT ![s] = Tail(@)]
    /\ UNCHANGED <<dbVars, srvOpen, reqs, devVars, connVars>>

(* the rows stamped at t, t-1, ..., 1: orderBy updatedAt desc *)
RECURSIVE ByUpdatedDesc(_)
ByUpdatedDesc(t) ==
    IF t = 0 THEN << >>
    ELSE LET at == { i \in DOMAIN notes : notes[i].updatedAt = t }
         IN (IF at = {} THEN << >> ELSE << notes[CHOOSE i \in at : TRUE] >>) \o ByUpdatedDesc(t - 1)

(* the where clause of the findMany of 'sync-request' *)
DeltaWhere(n, userId, lastSyncTime) ==
    /\ n.owner = userId
    /\ (lastSyncTime # 0 => n.updatedAt > lastSyncTime)
    /\ n.deletedAt = 0

(* socket.on('sync-request') when nothing is committed while it awaits findMany *)
SrvSyncRequest(s) ==
    /\ s \in srvOpen /\ toServer[s] # << >> /\ Head(toServer[s]).type = "sync-request"
    /\ LET m == Head(toServer[s])
           Match(n) == DeltaWhere(n, m.userId, m.lastSyncTime)
       IN toClient' =
             IF sockUser[s] # m.userId
             THEN EmitTo(s, PushMsg("error", NoNote))
             ELSE EmitTo(s, [PushMsg("sync-response", NoNote) EXCEPT
                               !.notes = SelectSeq(ByUpdatedDesc(Now(clock)), Match),
                               !.syncTime = Now(clock)])
    /\ toServer' = [toServer EXCEPT ![s] = Tail(@)]
    /\ UNCHANGED <<dbVars, sessVars, reqs, devVars, connVars>>

(* syncTime: new Date().toISOString(), evaluated after the await of findMany *)
SyncTimeOf(m) == Now(clock)

(* socket.on('sync-request') up to the await of prisma.note.findMany: the check of
   the user id, and the rows the query reads; the request stays at the head of the
   socket's queue with the rows found until the handler resumes *)
SrvSyncRequestFind(s) ==
    /\ s \in srvOpen /\ toServer[s] # << >> /\ Head(toServer[s]).type = "sync-request"
    /\ LET m == Head(toServer[s])
           Match(n) == DeltaWhere(n, m.userId, m.lastSyncTime)
           updatedNotes == SelectSeq(ByUpdatedDesc(Now(clock)), Match)
           awaiting == [type |-> "findMany", userId |-> m.userId, deviceId |-> m.deviceId,
                        lastSyncTime |-> m.lastSyncTime, updatedNotes |-> updatedNotes]
       IN IF sockUser[s] # m.userId
          THEN /\ toClient' = EmitTo(s, PushMsg("error", NoNote))
               /\ toServer' = [toServer EXCEPT ![s] = Tail(@)]
          ELSE /\ toServer' = [toServer EXCEPT ![s] = << awaiting >> \o Tail(@)]
               /\ UNCHANGED toClient
    /\ UNCHANGED <<dbVars, sessVars, reqs, devVars, connVars>>

(* socket.on('sync-request') after the await: socket.emit('sync-response', ...) *)
SrvSyncRequestEmit(s) ==
    /\ s \in srvOpen /\ toServer[s] # << >> /\ Head(toServer[s]).type = "findMany"
    /\ LET m == Head(toServer[s])
       IN toClient' = EmitTo(s, [PushMsg("sync-response", NoNote) EXCEPT
                                   !.notes = m.updatedNotes,
                                   !.syncTime = SyncTimeOf(m)])
    /\ toServer' = [toServer EXCEPT ![s] = Tail(@)]
    /\ UNCHANGED <<dbVars, sessVars, reqs, devVars, connVars>>

(* socket.on('disconnect'); Socket.IO has taken the socket out of its rooms *)
SrvDisconnect(s) ==
    /\ s \in srvOpen
    /\ ~TransportUp(s)
    /\ srvOpen' = srvOpen \ {s}
    /\ rooms' = [u \in Users |-> rooms[u] \ {s}]
    /\ userSessions' = IF sockUser[s] # "none"
                       THEN [userSessions EXCEPT ![sockUser[s]] = @ \ {s}]
                       ELSE userSessions
    /\ deviceSessions' = IF sockDevice[s] # "none"
                         THEN [i \in DOMAIN deviceSessions \ {sockDevice[s]} |-> deviceSessions[i]]
                         ELSE deviceSessions
    /\ deviceDb' = IF sockDevice[s] # "none"
                   THEN [i \in DOMAIN deviceDb |->
                           IF deviceDb[i].sessionToken = s
                           THEN [deviceDb[i] EXCEPT !.isActive = FALSE] ELSE deviceDb[i]]
                   ELSE deviceDb
    /\ toServer' = [toServer EXCEPT ![s] = << >>]
    /\ UNCHANGED <<dbVars, sockUser, sockDevice, toClient, reqs, devVars, connVars>>

----------------------------------------------------------------------------
(* Other socket clients (other devices, of any user): they connect, emit
   'register-device' with a user id and a device id, take what the server sends
   them, and disconnect *)

PeerDeviceIds == {"d2"}

(* io(...) of a client other than the device: the server's 'connection' *)
PeerConnect(s) ==
    /\ s \in PeerSocks /\ s \notin peerConn /\ s \notin srvOpen
    /\ sockUser[s] = "none"
    /\ peerConn' = peerConn \cup {s}
    /\ srvOpen' = srvOpen \cup {s}
    /\ UNCHANGED <<dbVars, rooms, sockUser, sockDevice, userSessions, deviceSessions,
                   deviceDb, reqs, chanVars, devVars, sock, nextSock>>

(* socket.emit('register-device', { userId, deviceId, ... }) *)
PeerRegister(s, u, dev) ==
    /\ s \in peerConn
    /\ Len(toServer[s]) < MaxChan /\ Len(toClient[s]) < MaxChan
    /\ toServer' = [toServer EXCEPT ![s] = Append(@, SockMsg("register-device", u, dev, 0))]
    /\ UNCHANGED <<dbVars, sessVars, reqs, toClient, devVars, connVars>>

(* the client handles the next message the server sent it *)
PeerReceive(s) ==
    /\ s \in peerConn /\ toClient[s] # << >>
    /\ toClient' = [toClient EXCEPT ![s] = Tail(@)]
    /\ UNCHANGED <<dbVars, sessVars, reqs, toServer, devVars, connVars>>

(* the client's transport goes away: what the server sent and it has not handled is lost *)
PeerDisconnect(s) ==
    /\ s \in peerConn
    /\ peerConn' = peerConn \ {s}
    /\ toClient' = [toClient EXCEPT ![s] = << >>]
    /\ UNCHANGED <<dbVars, sessVars, reqs, toServer, devVars, sock, nextSock>>

Peers ==
    \/ \E s \in PeerSocks : PeerConnect(s)
    \/ \E s \in PeerSocks, u \in Users, dev \in PeerDeviceIds : PeerRegister(s, u, dev)
    \/ \E s \in PeerSocks : PeerReceive(s)
    \/ \E s \in PeerSocks : PeerDisconnect(s)

----------------------------------------------------------------------------
(* Device: InMemoryStorage *)

NoLocal == [id |-> 0, title |-> "", content |-> "", version |-> 0,
            deletedAt |-> 0, isDeleted |-> FALSE, localOnly |-> FALSE, hasConflict |-> FALSE,
            syncStatus |-> "undefined"]

(* a note of a server answer or push as a JavaScript object: it has no isDeleted,
   localOnly or hasConflict property *)
FromServer(n) ==
    [NoLocal EXCEPT !.id = n.id, !.title = n.title, !.content = n.content,
                    !.version = n.version, !.deletedAt = n.deletedAt]

(* a saveNote that would count a save over an existing note as one more edit *)
SaveNote_CountsEdit(store, note, status) ==
    Put(store, note.id, [note EXCEPT !.localOnly = (status = "pending"),
                                     !.version = IF note.id \in DOMAIN store
                                                 THEN store[note.id].version + 1 ELSE @])

(* saveNote(note, status): the stored object is { ...note, localOnly: status === 'pending' } *)
SaveNote(store, note, status) == Put(store, note.id, [note EXCEPT !.localOnly = (status = "pending")])

(* getNoteById: the object of that id that is not isDeleted, or null *)
GetNoteById(store, id) ==
    IF id \in DOMAIN store /\ ~store[id].isDeleted THEN store[id] ELSE NoLocal

(* a syncStatus property that saveNote would derive from the status it is given *)
SyncStatusOf_FromStatus(n) == IF n.localOnly THEN "pending" ELSE "synced"

(* the syncStatus property of a stored object: saveNote never sets one *)
SyncStatusOf(n) == "undefined"

(* getAllNotes: the stored objects that are not isDeleted *)
GetAllNotes(store) == { store[i] : i \in { j \in DOMAIN store : ~store[j].isDeleted } }

MarkNoteConflicted(store, id) ==
    IF id \in DOMAIN store THEN [store EXCEPT ![id].hasConflict = TRUE] ELSE store

MarkNoteSynced(store, id) ==
    IF id \in DOMAIN store THEN [store EXCEPT ![id].localOnly = FALSE] ELSE store

(* InMemoryStorage.deleteNote marks the object and pushes its own queue entry;
   it throws when no object has the id *)
StorageDeleteThrows(store, id) == id \notin DOMAIN store
StorageDelete(store, id) == [store EXCEPT ![id].isDeleted = TRUE]
DeleteEntry(id) == [str |-> "", operation |-> "delete", noteId |-> id]

(* addToSyncQueue(operation) pushes its first argument: SyncService passes the
   operation type there, so the entry is that string *)
StringEntry(type) == [str |-> type, operation |-> "", noteId |-> 0]

(* item.data of a queue entry, as processSyncQueue reads it: no entry has one *)
ItemData(item) == "undefined"

(* JSON.parse(x) throws on undefined *)
JsonParseThrows(x) == x = "undefined"

(* markSyncItemFailed(item.id, item.retry_count): entries have no id property and
   undefined < length is false, so the queue is left as it is *)
MarkSyncItemFailed(q, item) == q

(* processSyncQueue: the entries whose data parses are sent; the others are marked failed *)
RECURSIVE ProcessSyncQueue(_, _)
ProcessSyncQueue(q, items) ==
    IF items = << >> THEN q
    ELSE ProcessSyncQueue(MarkSyncItemFailed(q, Head(items)), Tail(items))

Sendable(q) == SelectSeq(q, LAMBDA item : ~JsonParseThrows(ItemData(item)))

----------------------------------------------------------------------------
(* Device: OfflineStorage (expo-sqlite), the class whose methods take the arguments
   SyncService passes: addToSyncQueue(type, noteId, data), rows with id, data,
   operation_type, note_id and retry_count *)

(* saveNote(note, syncStatus): INSERT OR REPLACE of the columns of the notes table *)
OfflineSaveNote(store, note, status) ==
    Put(store, note.id,
        [NoLocal EXCEPT !.id = note.id, !.title = note.title, !.content = note.content,
                        !.version = IF note.version = 0 THEN 1 ELSE note.version,
                        !.deletedAt = note.deletedAt, !.syncStatus = status])

(* getNoteById: SELECT ... WHERE id = ? AND deleted_at IS NULL *)
OfflineGetNoteById(store, id) ==
    IF id \in DOMAIN store /\ store[id].deletedAt = 0 THEN store[id] ELSE NoLocal

(* getAllNotes(): SELECT ... WHERE deleted_at IS NULL *)
OfflineGetAllNotes(store) == { store[i] : i \in { j \in DOMAIN store : store[j].deletedAt = 0 } }

(* deleteNote(id, true): UPDATE notes SET deleted_at = now, sync_status = 'pending' *)
OfflineDeleteNote(store, id, now) ==
    IF id \in DOMAIN store
    THEN [store EXCEPT ![id].deletedAt = now, ![id].syncStatus = "pending"]
    ELSE store

(* markNoteSynced / markNoteConflicted: UPDATE notes SET sync_status = ? WHERE id = ? *)
OfflineSetSyncStatus(store, id, status) ==
    IF id \in DOMAIN store THEN [store EXCEPT ![id].syncStatus = status] ELSE store

(* the data column of a sync_queue row: the enqueued object, through JSON.stringify
   and back through JSON.parse; of a note it keeps id, title, content and version,
   of the { id } of a delete only the id *)
QueueData(note) == [id |-> note.id, title |-> note.title, content |-> note.content,
                    version |-> note.version]

(* addToSyncQueue(operationType, noteId, data): INSERT INTO sync_queue; the id is
   AUTOINCREMENT, retry_count defaults to 0 and status to 'pending' *)
OfflineAddToSyncQueue(q, operationType, noteId, data) ==
    Append(q, [id |-> Len(q) + 1, operation_type |-> operationType, note_id |-> noteId,
               data |-> data, retry_count |-> 0, status |-> "pending"])

(* getSyncQueue(): SELECT * FROM sync_queue WHERE status = 'pending' ORDER BY
   timestamp ASC; rows are inserted with the current time, so in insertion order *)
OfflineGetSyncQueue(q) == SelectSeq(q, LAMBDA row : row.status = "pending")

(* markSyncItemCompleted(id): UPDATE sync_queue SET status = 'completed' WHERE id = ? *)
OfflineMarkSyncItemCompleted(q, id) ==
    [i \in DOMAIN q |-> IF q[i].id = id THEN [q[i] EXCEPT !.status = "completed"] ELSE q[i]]

(* the retry count from which markSyncItemFailed gives an entry up *)
RetryCeiling == 3

(* markSyncItemFailed(id, retryCount): status = retryCount >= 3 ? 'failed' : 'pending',
   retry_count = retryCount + 1 *)
OfflineMarkSyncItemFailed(q, id, retryCount) ==
    [i \in DOMAIN q |->
        IF q[i].id = id
        THEN [q[i] EXCEPT !.status = IF retryCount >= RetryCeiling THEN "failed" ELSE "pending",
                          !.retry_count = retryCount + 1]
        ELSE q[i]]

----------------------------------------------------------------------------
(* Device: the storage calls of SyncService, on the storage class of the device *)

Offline(d) == storage[d] = "OfflineStorage"

StoreSaveNote(d, store, note, status) ==
    IF Offline(d) THEN OfflineSaveNote(store, note, status) ELSE SaveNote(store, note, status)

StoreGetNoteById(d, store, id) ==
    IF Offline(d) THEN OfflineGetNoteById(store, id) ELSE GetNoteById(store, id)

(* localNote.syncStatus *)
StoreSyncStatus(d, n) == IF Offline(d) THEN n.syncStatus ELSE SyncStatusOf(n)

StoreGetAllNotes(d, store) ==
    IF Offline(d) THEN OfflineGetAllNotes(store) ELSE GetAllNotes(store)

StoreMarkNoteConflicted(d, store, id) ==
    IF Offline(d) THEN OfflineSetSyncStatus(store, id, "conflict") ELSE MarkNoteConflicted(store, id)

StoreMarkNoteSynced(d, store, id) ==
    IF Offline(d) THEN OfflineSetSyncStatus(store, id, "synced") ELSE MarkNoteSynced(store, id)

(* deleteNote(id, true): whether it throws, the notes after it, the queue after it *)
StoreDeleteThrows(d, store, id) == ~Offline(d) /\ StorageDeleteThrows(store, id)
StoreDelete(d, store, id, now) ==
    IF Offline(d) THEN OfflineDeleteNote(store, id, now) ELSE StorageDelete(store, id)
StoreDeleteQueue(d, q, id) == IF Offline(d) THEN q ELSE Append(q, DeleteEntry(id))

(* addToSyncQueue(type, noteId, data) as SyncService calls it *)
StoreAddToSyncQueue(d, q, type, noteId, data) ==
    IF Offline(d) THEN OfflineAddToSyncQueue(q, type, noteId, QueueData(data))
    ELSE Append(q, StringEntry(type))

(* the entries of getSyncQueue() *)
StoreGetSyncQueue(d, q) == IF Offline(d) THEN OfflineGetSyncQueue(q) ELSE q

(* the entries of getSyncQueue() that processSyncQueue gets to send *)
StoreSendable(d, q) == IF Offline(d) THEN OfflineGetSyncQueue(q) ELSE Sendable(q)

Event(ev, id) == [ev |-> ev, id |-> id, localVersion |-> 0, remoteVersion |-> 0]
ConflictEvent(localNote, remoteNote) ==
    [ev |-> "conflict", id |-> localNote.id, localVersion |-> localNote.version,
     remoteVersion |-> remoteNote.version]

(* applySyncResponse, the loop over data.notes: [store, events] after it *)
RECURSIVE ApplyNotes(_, _, _, _)
ApplyNotes(d, store, evs, ns) ==
    IF ns = << >> THEN [store |-> store, events |-> evs]
    ELSE LET serverNote == FromServer(Head(ns))
             localNote == StoreGetNoteById(d, store, serverNote.id)
         IN IF localNote = NoLocal
            THEN ApplyNotes(d, StoreSaveNote(d, store, serverNote, "synced"),
                            evs \cup {Event("noteCreated", serverNote.id)}, Tail(ns))
            ELSE IF StoreSyncStatus(d, localNote) # "pending"
            THEN ApplyNotes(d, StoreSaveNote(d, store, serverNote, "synced"),
                            evs \cup {Event("noteUpdated", serverNote.id)}, Tail(ns))
            ELSE ApplyNotes(d, store, evs, Tail(ns))

----------------------------------------------------------------------------
(* Device: SyncService *)

NoSock == [id |-> 0, phase |-> "none"]
NoReplay == [items |-> << >>, at |-> 0]
NoFlow == [kind |-> "none", note |-> NoLocal]
NoDelivery == [calls |-> << >>, propagated |-> FALSE]

Connected(d) == sock[d].phase = "connected"

(* generateId(): an id no other note has; server ids are positive *)
ClientId(n) == 0 - n

(* a guard that would look at isOnline only *)
PassAdmitted_IgnoreSyncing(online, syncing) == online

(* performFullSync: if (!this.isOnline || this.isSyncing) return; *)
PassAdmitted(online, syncing) == online /\ ~syncing

(* a 'disconnect' handler that would try again whatever the reason *)
ReconnectScheduled_Always(reason) == TRUE

(* if (reason !== 'io client disconnect') setTimeout(() => ..., 3000) *)
ReconnectScheduled(reason) == reason # "io client disconnect"

(* initializeSocket, called by the reconnect timer of the 'disconnect' handler when
   one is pending (it has then fired), and otherwise by initialize() or
   forceReconnect: a new socket unless one is connected *)
DevInitSocket(d) ==
    /\ ~Connected(d)
    /\ nextSock < MaxSocks
    /\ sock' = [sock EXCEPT ![d] = [id |-> nextSock + 1, phase |-> "connecting"]]
    /\ nextSock' = nextSock + 1
    /\ reconnectTimer' = [reconnectTimer EXCEPT ![d] = FALSE]
    /\ UNCHANGED <<dbVars, sessVars, reqs, chanVars, local, syncQueue, lastSync, isOnline,
                   isSyncing, events, created, flow, listenerVars, storage, replay, raised, peerConn>>

(* the part of performFullSync that runs when the socket is connected: the queue is
   processed, 'sync-request' is emitted and the checkpoint is set at once *)
SocketSyncMsgs(d) == << SockMsg("sync-request", UserOf(d), "none", lastSync[d]) >>

(* socket.on('connect'): isOnline, performFullSync when it was offline, registerDevice.
   registerDevice emits before the first await of performFullSync resumes. *)
DevConnect(d) ==
    LET s == sock[d].id
        wasOffline == ~isOnline[d]
        syncs == wasOffline /\ PassAdmitted(TRUE, isSyncing[d])
    IN /\ sock[d].phase = "connecting"
       /\ sock' = [sock EXCEPT ![d].phase = "connected"]
       /\ srvOpen' = srvOpen \cup {s}
       /\ isOnline' = [isOnline EXCEPT ![d] = TRUE]
       /\ syncs => StoreSendable(d, syncQueue[d]) = << >>
       /\ syncQueue' = [syncQueue EXCEPT ![d] =
             IF syncs THEN ProcessSyncQueue(@, StoreGetSyncQueue(d, @)) ELSE @]
       /\ toServer' = [toServer EXCEPT ![s] =
             << SockMsg("register-device", UserOf(d), d, 0) >>
                \o (IF syncs THEN SocketSyncMsgs(d) ELSE << >>)]
       /\ lastSync' = [lastSync EXCEPT ![d] = IF syncs THEN Now(clock) ELSE @]
       /\ events' = [events EXCEPT ![d] = {Event("network", 0)}
             \cup (IF syncs THEN {Event("syncStarted", 0), Event("syncCompleted", 0)} ELSE {})]
       /\ UNCHANGED <<wiringVars, dbVars, rooms, sockUser, sockDevice, userSessions, deviceSessions,
                      deviceDb, reqs, toClient, local, isSyncing, created, flow, nextSock, peerConn>>

(* socket.on('disconnect') with a reason other than 'io client disconnect' *)
DevDisconnect(d) ==
    /\ Connected(d)
    /\ sock' = [sock EXCEPT ![d].phase = "closed"]
    /\ isOnline' = [isOnline EXCEPT ![d] = FALSE]
    /\ events' = [events EXCEPT ![d] = {Event("network", 0)}]
    /\ toClient' = [toClient EXCEPT ![sock[d].id] = << >>]
    /\ reconnectTimer' = [reconnectTimer EXCEPT ![d] = @ \/ ReconnectScheduled("transport close")]
    /\ UNCHANGED <<listenerVars, storage, replay, raised, dbVars, sessVars, reqs, toServer, local, syncQueue, lastSync,
                   isSyncing, created, flow, nextSock, peerConn>>

(* what socket.disconnect() leaves of the device's state: on a connected socket the
   'disconnect' handler runs with the reason 'io client disconnect' *)
AfterLocalDisconnect(d) ==
    /\ toClient' = [toClient EXCEPT ![sock[d].id] = << >>]
    /\ IF Connected(d)
       THEN /\ isOnline' = [isOnline EXCEPT ![d] = FALSE]
            /\ events' = [events EXCEPT ![d] = {Event("network", 0)}]
            /\ reconnectTimer' = [reconnectTimer EXCEPT ![d] =
                  @ \/ ReconnectScheduled("io client disconnect")]
       ELSE /\ events' = [events EXCEPT ![d] = {}]
            /\ UNCHANGED <<isOnline, reconnectTimer>>

(* disconnectSocket(), as cleanup() calls it: socket.disconnect(); this.socket = null *)
DevDisconnectSocket(d) ==
    /\ sock[d] # NoSock
    /\ sock' = [sock EXCEPT ![d] = NoSock]
    /\ AfterLocalDisconnect(d)
    /\ UNCHANGED <<listenerVars, storage, replay, raised, dbVars, sessVars, reqs, toServer, local, syncQueue,
                   lastSync, isSyncing, created, flow, nextSock, peerConn>>

(* forceReconnect: disconnectSocket(), then initializeSocket() opens a new socket; the
   pass its timer asks for a second later is DevFullSyncSocket *)
DevForceReconnect(d) ==
    /\ sock[d] # NoSock
    /\ nextSock < MaxSocks
    /\ sock' = [sock EXCEPT ![d] = [id |-> nextSock + 1, phase |-> "connecting"]]
    /\ nextSock' = nextSock + 1
    /\ AfterLocalDisconnect(d)
    /\ UNCHANGED <<listenerVars, storage, replay, raised, dbVars, sessVars, reqs, toServer, local, syncQueue,
                   lastSync, isSyncing, created, flow, peerConn>>

(* the reconnect timer fires on a connected socket: if (!this.socket?.connected) is
   false and nothing is done *)
DevTimerLapses(d) ==
    /\ reconnectTimer[d]
    /\ Connected(d)
    /\ reconnectTimer' = [reconnectTimer EXCEPT ![d] = FALSE]
    /\ events' = [events EXCEPT ![d] = {}]
    /\ UNCHANGED <<listenerVars, storage, replay, raised, dbVars, sessVars, reqs, chanVars, local, syncQueue,
                   lastSync, isOnline, isSyncing, created, flow, connVars>>

(* the callback of setTimeout(..., 3000) in the 'disconnect' handler *)
DevReconnectTimer(d) ==
    reconnectTimer[d] /\ (DevInitSocket(d) \/ DevTimerLapses(d))

(* performFullSync (timer, forcSync, initialize) with the socket connected *)
DevFullSyncSocket(d) ==
    LET s == sock[d].id
    IN /\ PassAdmitted(isOnline[d], isSyncing[d])
       /\ Connected(d)
       /\ Len(toServer[s]) < MaxChan /\ Len(toClient[s]) < MaxChan
       /\ StoreSendable(d, syncQueue[d]) = << >>
       /\ syncQueue' = [syncQueue EXCEPT ![d] = ProcessSyncQueue(@, StoreGetSyncQueue(d, @))]
       /\ toServer' = [toServer EXCEPT ![s] = @ \o SocketSyncMsgs(d)]
       /\ lastSync' = [lastSync EXCEPT ![d] = Now(clock)]
       /\ events' = [events EXCEPT ![d] = {Event("syncStarted", 0), Event("syncCompleted", 0)}]
       /\ UNCHANGED <<wiringVars, dbVars, sessVars, reqs, toClient, local, isOnline, isSyncing,
                      created, flow, connVars>>

(* performFullSync (initialize after initializeSocket, timer, forcSync) without a
   connected socket, up to the await of performHttpSync *)
DevFullSyncHttp(d) ==
    /\ PassAdmitted(isOnline[d], isSyncing[d])
    /\ sock[d] # NoSock /\ ~Connected(d)
    /\ reqs[d].stage = "free" /\ flow[d] = NoFlow
    /\ StoreSendable(d, syncQueue[d]) = << >>
    /\ syncQueue' = [syncQueue EXCEPT ![d] = ProcessSyncQueue(@, StoreGetSyncQueue(d, @))]
    /\ isSyncing' = [isSyncing EXCEPT ![d] = TRUE]
    /\ events' = [events EXCEPT ![d] = {Event("syncStarted", 0)}]
    /\ reqs' = [reqs EXCEPT ![d] = NewRequest(UserOf(d), "GET", 0, "", "", << >>)]
    /\ flow' = [flow EXCEPT ![d] = [kind |-> "httpSync", note |-> NoLocal]]
    /\ UNCHANGED <<wiringVars, dbVars, sessVars, chanVars, local, lastSync, isOnline, created, connVars>>

(* a pass that would lower the flag at the end of its try block only *)
SyncingAfterPass_OnSuccessOnly(ok) == ~ok

(* finally { this.isSyncing = false; ... }: the flag after a pass, whether it threw *)
SyncingAfterPass(ok) == FALSE

(* the rest of performHttpSync and performFullSync once the GET has settled *)
DevHttpSyncDone(d) ==
    LET r == reqs[d]
        ok == r.stage = "responded" /\ r.status = 200
        applied == ApplyNotes(d, local[d], {}, r.list)
    IN /\ flow[d].kind = "httpSync" /\ r.stage \in {"responded", "failed"}
       /\ local' = [local EXCEPT ![d] = IF ok THEN applied.store ELSE @]
       /\ lastSync' = [lastSync EXCEPT ![d] = IF ok THEN Now(clock) ELSE @]
       /\ events' = [events EXCEPT ![d] =
             IF ok THEN applied.events \cup {Event("syncCompleted", 0)}
             ELSE {Event("syncError", 0), Event("syncCompleted", 0)}]
       /\ isSyncing' = [isSyncing EXCEPT ![d] = SyncingAfterPass(ok)]
       /\ reqs' = [reqs EXCEPT ![d] = FreeReq]
       /\ flow' = [flow EXCEPT ![d] = NoFlow]
       /\ UNCHANGED <<wiringVars, dbVars, sessVars, chanVars, syncQueue, isOnline, created, connVars>>

(* processSyncQueue, the request of one entry: POST, PUT with clientVersion
   data.version - 1, or DELETE *)
ReplayRequest(d, item) ==
    IF item.operation_type = "create"
    THEN NewRequest(UserOf(d), "POST", item.data.id, item.data.title, item.data.content, << >>)
    ELSE IF item.operation_type = "update"
    THEN NewRequest(UserOf(d), "PUT", item.note_id, item.data.title, item.data.content,
                    << item.data.version - 1 >>)
    ELSE NewRequest(UserOf(d), "DELETE", item.note_id, "", "", << >>)

(* axios resolves on a 2xx answer and throws on any other answer or on none *)
AxiosResolves(r) == r.stage = "responded" /\ r.status \in {200, 201, 204}

(* a loop that would leave the queue at the first entry that fails *)
LoopContinues_UntilFailure(rp, resolved) == resolved /\ rp.at < Len(rp.items)

(* for (const item of queueItems) with the try/catch inside the body: the loop goes
   on to the next entry whether the body resolved or threw *)
LoopContinues(rp, resolved) == rp.at < Len(rp.items)

(* performFullSync (timer, forcSync, initialize) when getSyncQueue() returns entries
   that reach a request: up to the await of the first entry's call *)
DevReplayStart(d) ==
    LET items == StoreSendable(d, syncQueue[d])
    IN /\ PassAdmitted(isOnline[d], isSyncing[d])
       /\ sock[d] # NoSock
       /\ items # << >>
       /\ reqs[d].stage = "free" /\ flow[d] = NoFlow
       /\ isSyncing' = [isSyncing EXCEPT ![d] = TRUE]
       /\ events' = [events EXCEPT ![d] = {Event("syncStarted", 0)}]
       /\ replay' = [replay EXCEPT ![d] = [items |-> items, at |-> 1]]
       /\ reqs' = [reqs EXCEPT ![d] = ReplayRequest(d, Head(items))]
       /\ flow' = [flow EXCEPT ![d] = [kind |-> "replay", note |-> NoLocal]]
       /\ UNCHANGED <<listenerVars, storage, raised, reconnectTimer, dbVars, sessVars, chanVars, local, syncQueue, lastSync,
                      isOnline, created, connVars>>

(* socket.on('connect') after an offline period, when getSyncQueue() returns entries
   that reach a request: isOnline, performFullSync up to the await of the first
   entry's call, registerDevice *)
DevConnectReplay(d) ==
    LET s == sock[d].id
        items == StoreSendable(d, syncQueue[d])
    IN /\ sock[d].phase = "connecting"
       /\ ~isOnline[d] /\ PassAdmitted(TRUE, isSyncing[d])
       /\ items # << >>
       /\ reqs[d].stage = "free" /\ flow[d] = NoFlow
       /\ sock' = [sock EXCEPT ![d].phase = "connected"]
       /\ srvOpen' = srvOpen \cup {s}
       /\ isOnline' = [isOnline EXCEPT ![d] = TRUE]
       /\ isSyncing' = [isSyncing EXCEPT ![d] = TRUE]
       /\ events' = [events EXCEPT ![d] = {Event("network", 0), Event("syncStarted", 0)}]
       /\ replay' = [replay EXCEPT ![d] = [items |-> items, at |-> 1]]
       /\ reqs' = [reqs EXCEPT ![d] = ReplayRequest(d, Head(items))]
       /\ flow' = [flow EXCEPT ![d] = [kind |-> "replay", note |-> NoLocal]]
       /\ toServer' = [toServer EXCEPT ![s] = << SockMsg("register-device", UserOf(d), d, 0) >>]
       /\ UNCHANGED <<listenerVars, storage, raised, reconnectTimer, dbVars, rooms, sockUser, sockDevice, userSessions,
                      deviceSessions, deviceDb, toClient, local, syncQueue, lastSync,
                      created, nextSock, peerConn>>

(* processSyncQueue once the call of an entry has settled: markNoteSynced and
   markSyncItemCompleted, or markSyncItemFailed in the catch; then the call of the
   next entry, or after the last one the rest of performFullSync: 'sync-request' and
   the checkpoint when the socket is connected, else the GET of performHttpSync *)
DevReplaySettled(d) ==
    LET r == reqs[d]
        item == replay[d].items[replay[d].at]
        more == LoopContinues(replay[d], AxiosResolves(r))
        s == sock[d].id
    IN /\ flow[d].kind = "replay" /\ r.stage \in {"responded", "failed"}
       /\ IF AxiosResolves(r)
          THEN /\ local' = [local EXCEPT ![d] = StoreMarkNoteSynced(d, @, item.note_id)]
               /\ syncQueue' = [syncQueue EXCEPT ![d] = OfflineMarkSyncItemCompleted(@, item.id)]
          ELSE /\ syncQueue' = [syncQueue EXCEPT ![d] =
                     OfflineMarkSyncItemFailed(@, item.id, item.retry_count)]
               /\ UNCHANGED local
       /\ replay' = [replay EXCEPT ![d] = IF more THEN [@ EXCEPT !.at = @ + 1] ELSE NoReplay]
       /\ IF more
          THEN /\ reqs' = [reqs EXCEPT ![d] = ReplayRequest(d, replay[d].items[replay[d].at + 1])]
               /\ events' = [events EXCEPT ![d] = {}]
               /\ UNCHANGED <<flow, isSyncing, lastSync, toServer>>
          ELSE IF Connected(d)
          THEN /\ Len(toServer[s]) < MaxChan
               /\ toServer' = [toServer EXCEPT ![s] = @ \o SocketSyncMsgs(d)]
               /\ lastSync' = [lastSync EXCEPT ![d] = Now(clock)]
               /\ isSyncing' = [isSyncing EXCEPT ![d] = FALSE]
               /\ events' = [events EXCEPT ![d] = {Event("syncCompleted", 0)}]
               /\ reqs' = [reqs EXCEPT ![d] = FreeReq]
               /\ flow' = [flow EXCEPT ![d] = NoFlow]
          ELSE /\ reqs' = [reqs EXCEPT ![d] = NewRequest(UserOf(d), "GET", 0, "", "", << >>)]
               /\ flow' = [flow EXCEPT ![d] = [kind |-> "httpSync", note |-> NoLocal]]
               /\ events' = [events EXCEPT ![d] = {}]
               /\ UNCHANGED <<isSyncing, lastSync, toServer>>
       /\ UNCHANGED <<listenerVars, storage, raised, reconnectTimer, dbVars, sessVars, toClient, isOnline, created, connVars>>

(* createNote up to the await of the POST, or to its end when offline *)
DevCreateNote(d, p) ==
    LET id == ClientId(created[d] + 1)
        note == [NoLocal EXCEPT !.id = id, !.title = p.title, !.content = p.content,
                                !.version = 1]
    IN /\ created[d] < MaxCreates
       /\ Len(syncQueue[d]) < MaxQueue
       /\ created' = [created EXCEPT ![d] = @ + 1]
       /\ local' = [local EXCEPT ![d] = StoreSaveNote(d, @, note, "pending")]
       /\ IF isOnline[d]
          THEN /\ reqs[d].stage = "free" /\ flow[d] = NoFlow
               /\ reqs' = [reqs EXCEPT ![d] =
                     NewRequest(UserOf(d), "POST", id, note.title, note.content, << >>)]
               /\ flow' = [flow EXCEPT ![d] = [kind |-> "create", note |-> note]]
               /\ events' = [events EXCEPT ![d] = {}]
               /\ UNCHANGED syncQueue
          ELSE /\ syncQueue' = [syncQueue EXCEPT ![d] = 
                     StoreAddToSyncQueue(d, @, "create", id, note)]
               /\ events' = [events EXCEPT ![d] = {Event("noteCreated", id)}]
               /\ UNCHANGED <<reqs, flow>>
       /\ UNCHANGED <<wiringVars, dbVars, sessVars, chanVars, lastSync, isOnline, isSyncing, connVars>>

(* createNote after the POST has settled *)
DevCreateDone(d) ==
    LET r == reqs[d]
        ok == r.stage = "responded" /\ r.status = 201
    IN /\ flow[d].kind = "create" /\ r.stage \in {"responded", "failed"}
       /\ IF ok
          THEN /\ local' = [local EXCEPT ![d] = StoreSaveNote(d, @, FromServer(r.body), "synced")]
               /\ events' = [events EXCEPT ![d] = {Event("noteCreated", r.body.id)}]
               /\ UNCHANGED syncQueue
          ELSE /\ syncQueue' = [syncQueue EXCEPT ![d] = 
                     StoreAddToSyncQueue(d, @, "create", flow[d].note.id, flow[d].note)]
               /\ events' = [events EXCEPT ![d] = {Event("noteCreated", flow[d].note.id)}]
               /\ UNCHANGED local
       /\ reqs' = [reqs EXCEPT ![d] = FreeReq]
       /\ flow' = [flow EXCEPT ![d] = NoFlow]
       /\ UNCHANGED <<wiringVars, dbVars, sessVars, chanVars, lastSync, isOnline, isSyncing, created, connVars>>

(* a lookup that would take every answer of getNoteById for a note *)
NoteNotFound_Never(localNote) == FALSE

(* if (!localNote): getNoteById answered null *)
NoteNotFound(localNote) == localNote = NoLocal

(* updateNote for an id getNoteById has no note for: throw new Error('Note not found') *)
DevUpdateNoteThrows(d, id, p) ==
    LET localNote == StoreGetNoteById(d, local[d], id)
    IN /\ NoteNotFound(localNote)
       /\ raised' = [raised EXCEPT ![d] = "Note not found"]
       /\ events' = [events EXCEPT ![d] = {}]
       /\ UNCHANGED <<listenerVars, storage, replay, reconnectTimer, dbVars, sessVars, chanVars, reqs, local,
                      syncQueue, lastSync, isOnline, isSyncing, created, flow, connVars>>

(* deleteNote for an id getNoteById has no note for: return *)
DevDeleteNoteReturns(d, id) ==
    LET localNote == StoreGetNoteById(d, local[d], id)
    IN /\ NoteNotFound(localNote)
       /\ events' = [events EXCEPT ![d] = {}]
       /\ UNCHANGED <<wiringVars, dbVars, sessVars, chanVars, reqs, local, syncQueue,
                      lastSync, isOnline, isSyncing, created, flow, connVars>>

(* updateNote up to the await of the PUT, or to its end when offline; for an id
   getNoteById does not find it throws before changing anything *)
DevUpdateNoteOn(d, k, id, p) ==
    LET localNote == StoreGetNoteById(d, local[d], id)
        updatedNote == [localNote EXCEPT !.title = p.title, !.content = p.content,
                                         !.version = @ + 1]
    IN /\ ~NoteNotFound(localNote)
       /\ localNote.version <= MaxCommits
       /\ Len(syncQueue[d]) < MaxQueue
       /\ local' = [local EXCEPT ![d] = StoreSaveNote(d, @, updatedNote, "pending")]
       /\ IF isOnline[d]
          THEN /\ reqs[k].stage = "free" /\ flow[k] = NoFlow
               /\ reqs' = [reqs EXCEPT ![k] =
                     NewRequest(UserOf(d), "PUT", id, updatedNote.title, updatedNote.content,
                                << localNote.version >>)]
               /\ flow' = [flow EXCEPT ![k] = [kind |-> "update", note |-> updatedNote]]
               /\ events' = [events EXCEPT ![d] = {}]
               /\ UNCHANGED syncQueue
          ELSE /\ syncQueue' = [syncQueue EXCEPT ![d] = 
                     StoreAddToSyncQueue(d, @, "update", id, updatedNote)]
               /\ events' = [events EXCEPT ![d] = {Event("noteUpdated", id)}]
               /\ UNCHANGED <<reqs, flow>>
       /\ UNCHANGED <<wiringVars, dbVars, sessVars, chanVars, lastSync, isOnline, isSyncing, created, connVars>>

DevUpdateNote(d, id, p) == DevUpdateNoteOn(d, d, id, p)

(* updateNote after the PUT has settled: 200, 409, or any other failure *)
DevUpdateDoneOn(d, k) ==
    LET r == reqs[k]
        updatedNote == flow[k].note
        ok == r.stage = "responded" /\ r.status = 200
        conflict == r.stage = "responded" /\ r.status = 409
    IN /\ flow[k].kind = "update" /\ r.stage \in {"responded", "failed"}
       /\ IF ok
          THEN /\ local' = [local EXCEPT ![d] = StoreSaveNote(d, @, FromServer(r.body), "synced")]
               /\ events' = [events EXCEPT ![d] = {Event("noteUpdated", r.body.id)}]
               /\ UNCHANGED syncQueue
          ELSE IF conflict
          THEN /\ local' = [local EXCEPT ![d] = StoreMarkNoteConflicted(d, @, updatedNote.id)]
               /\ events' = [events EXCEPT ![d] = {ConflictEvent(updatedNote, r.body)}]
               /\ UNCHANGED syncQueue
          ELSE /\ syncQueue' = [syncQueue EXCEPT ![d] = 
                     StoreAddToSyncQueue(d, @, "update", updatedNote.id, updatedNote)]
               /\ events' = [events EXCEPT ![d] = {Event("noteUpdated", updatedNote.id)}]
               /\ UNCHANGED local
       /\ reqs' = [reqs EXCEPT ![k] = FreeReq]
       /\ flow' = [flow EXCEPT ![k] = NoFlow]
       /\ UNCHANGED <<wiringVars, dbVars, sessVars, chanVars, lastSync, isOnline, isSyncing, created, connVars>>

DevUpdateDone(d) == DevUpdateDoneOn(d, d)

(* updateNote called while an earlier call of the device awaits the server: nothing
   in SyncService makes the second call wait *)
DevUpdateNoteMeanwhile(d, id, p) ==
    /\ isOnline[d] /\ reqs[d].stage # "free"
    /\ DevUpdateNoteOn(d, SecondCall(d), id, p)

DevUpdateMeanwhileDone(d) == DevUpdateDoneOn(d, SecondCall(d))

(* the second call's request or answer is lost *)
NetFailMeanwhile(d) ==
    LET k == SecondCall(d)
    IN /\ reqs[k].stage \in {"sent", "responded"}
       /\ reqs' = [reqs EXCEPT ![k] = [FreeReq EXCEPT !.stage = "failed", !.op = reqs[k].op, !.id = reqs[k].id]]
       /\ UNCHANGED <<dbVars, sessVars, chanVars, devVars, connVars>>

(* deleteNote up to the await of the DELETE, or to its end when offline; for an id
   getNoteById does not find it returns at once *)
DevDeleteNote(d, id) ==
    LET localNote == StoreGetNoteById(d, local[d], id)
    IN /\ ~NoteNotFound(localNote)
       /\ Len(syncQueue[d]) + 2 <= MaxQueue
       /\ local' = [local EXCEPT ![d] = StoreDelete(d, @, id, Now(clock))]
       /\ IF isOnline[d]
          THEN /\ reqs[d].stage = "free" /\ flow[d] = NoFlow
               /\ syncQueue' = [syncQueue EXCEPT ![d] = StoreDeleteQueue(d, @, id)]
               /\ reqs' = [reqs EXCEPT ![d] = NewRequest(UserOf(d), "DELETE", id, "", "", << >>)]
               /\ flow' = [flow EXCEPT ![d] = [kind |-> "delete", note |-> localNote]]
               /\ events' = [events EXCEPT ![d] = {}]
          ELSE /\ syncQueue' = [syncQueue EXCEPT ![d] =
                     StoreAddToSyncQueue(d, StoreDeleteQueue(d, @, id), "delete", id,
                                         [NoLocal EXCEPT !.id = id])]
               /\ events' = [events EXCEPT ![d] = {Event("noteDeleted", id)}]
               /\ UNCHANGED <<reqs, flow>>
       /\ UNCHANGED <<wiringVars, dbVars, sessVars, chanVars, lastSync, isOnline, isSyncing, created, connVars>>

(* deleteNote after the DELETE has settled *)
DevDeleteDone(d) ==
    LET r == reqs[d]
        id == flow[d].note.id
        ok == r.stage = "responded" /\ r.status = 204
    IN /\ flow[d].kind = "delete" /\ r.stage \in {"responded", "failed"}
       /\ IF ok
          THEN /\ local' = [local EXCEPT ![d] = StoreMarkNoteSynced(d, @, id)]
               /\ UNCHANGED syncQueue
          ELSE /\ syncQueue' = [syncQueue EXCEPT ![d] = 
                     StoreAddToSyncQueue(d, @, "delete", id, [NoLocal EXCEPT !.id = id])]
               /\ UNCHANGED local
       /\ events' = [events EXCEPT ![d] = {Event("noteDeleted", id)}]
       /\ reqs' = [reqs EXCEPT ![d] = FreeReq]
       /\ flow' = [flow EXCEPT ![d] = NoFlow]
       /\ UNCHANGED <<wiringVars, dbVars, sessVars, chanVars, lastSync, isOnline, isSyncing, created, connVars>>

(* the device's HTTP call fails without an answer: the request is lost before the
   route runs, or the answer is lost after it *)
NetFail(d) ==
    /\ reqs[d].stage \in {"sent", "responded"}
    /\ reqs' = [reqs EXCEPT ![d] = [FreeReq EXCEPT !.stage = "failed", !.op = reqs[d].op, !.id = reqs[d].id]]
    /\ UNCHANGED <<dbVars, sessVars, chanVars, devVars, connVars>>

(* the next message the device's socket delivers *)
Incoming(d, type) ==
    /\ Connected(d)
    /\ toClient[sock[d].id] # << >>
    /\ Head(toClient[sock[d].id]).type = type

Delivered(d) == [toClient EXCEPT ![sock[d].id] = Tail(@)]

(* handleRemoteNoteCreated *)
DevOnNoteCreated(d) ==
    LET note == FromServer(Head(toClient[sock[d].id]).note)
    IN /\ Incoming(d, "note:created")
       /\ local' = [local EXCEPT ![d] = StoreSaveNote(d, @, note, "synced")]
       /\ events' = [events EXCEPT ![d] = {Event("noteCreated", note.id)}]
       /\ toClient' = Delivered(d)
       /\ UNCHANGED <<wiringVars, dbVars, sessVars, reqs, toServer, syncQueue, lastSync, isOnline,
                      isSyncing, created, flow, connVars>>

(* handleRemoteNoteUpdated *)
DevOnNoteUpdated(d) ==
    LET note == FromServer(Head(toClient[sock[d].id]).note)
        localNote == StoreGetNoteById(d, local[d], note.id)
    IN /\ Incoming(d, "note:updated")
       /\ IF localNote # NoLocal /\ StoreSyncStatus(d, localNote) = "pending"
          THEN /\ local' = [local EXCEPT ![d] = StoreMarkNoteConflicted(d, @, note.id)]
               /\ events' = [events EXCEPT ![d] = {ConflictEvent(localNote, note)}]
          ELSE /\ local' = [local EXCEPT ![d] = StoreSaveNote(d, @, note, "synced")]
               /\ events' = [events EXCEPT ![d] = {Event("noteUpdated", note.id)}]
       /\ toClient' = Delivered(d)
       /\ UNCHANGED <<wiringVars, dbVars, sessVars, reqs, toServer, syncQueue, lastSync, isOnline,
                      isSyncing, created, flow, connVars>>

(* handleRemoteNoteDeleted *)
DevOnNoteDeleted(d) ==
    LET id == Head(toClient[sock[d].id]).note.id
        localNote == StoreGetNoteById(d, local[d], id)
    IN /\ Incoming(d, "note:deleted")
       /\ IF localNote # NoLocal /\ StoreSyncStatus(d, localNote) = "pending"
          THEN /\ local' = [local EXCEPT ![d] = StoreMarkNoteConflicted(d, @, id)]
               /\ events' = [events EXCEPT ![d] = {}]
               /\ UNCHANGED syncQueue
          ELSE IF StoreDeleteThrows(d, local[d], id)
          THEN /\ events' = [events EXCEPT ![d] = {}]
               /\ UNCHANGED <<local, syncQueue>>
          ELSE /\ Len(syncQueue[d]) < MaxQueue
               /\ local' = [local EXCEPT ![d] = StoreMarkNoteSynced(d, StoreDelete(d, @, id, Now(clock)), id)]
               /\ syncQueue' = [syncQueue EXCEPT ![d] = StoreDeleteQueue(d, @, id)]
               /\ events' = [events EXCEPT ![d] = {Event("noteDeleted", id)}]
       /\ toClient' = Delivered(d)
       /\ UNCHANGED <<wiringVars, dbVars, sessVars, reqs, toServer, lastSync, isOnline,
                      isSyncing, created, flow, connVars>>

(* handleSyncResponse: applySyncResponse(data), then the checkpoint from data.syncTime *)
DevOnSyncResponse(d) ==
    LET m == Head(toClient[sock[d].id])
        applied == ApplyNotes(d, local[d], {}, m.notes)
    IN /\ Incoming(d, "sync-response")
       /\ local' = [local EXCEPT ![d] = applied.store]
       /\ events' = [events EXCEPT ![d] = applied.events]
       /\ lastSync' = [lastSync EXCEPT ![d] = IF m.syncTime # 0 THEN m.syncTime ELSE @]
       /\ toClient' = Delivered(d)
       /\ UNCHANGED <<wiringVars, dbVars, sessVars, reqs, toServer, syncQueue, isOnline,
                      isSyncing, created, flow, connVars>>

(* handleDevicesUpdated, and the 'error' handler, which only logs *)
DevOnOther(d) ==
    LET m == Head(toClient[sock[d].id])
    IN /\ Incoming(d, "devices-updated") \/ Incoming(d, "error")
       /\ events' = [events EXCEPT ![d] =
             IF m.type = "devices-updated" THEN {Event("devicesUpdated", 0)} ELSE {}]
       /\ toClient' = Delivered(d)
       /\ UNCHANGED <<wiringVars, dbVars, sessVars, reqs, toServer, local, syncQueue, lastSync, isOnline,
                      isSyncing, created, flow, connVars>>

----------------------------------------------------------------------------

Init ==
    /\ notes = << >>
    /\ noteVersions = << >>
    /\ clock = 0
    /\ reqs = [k \in Conns |-> FreeReq]
    /\ rooms = [u \in Users |-> {}]
    /\ sockUser = [s \in SockIds |-> "none"]
    /\ sockDevice = [s \in SockIds |-> "none"]
    /\ srvOpen = {}
    /\ userSessions = [u \in Users |-> {}]
    /\ deviceSessions = << >>
    /\ deviceDb = << >>
    /\ toClient = [s \in SockIds |-> << >>]
    /\ toServer = [s \in SockIds |-> << >>]
    /\ local = [d \in Devices |-> << >>]
    /\ syncQueue = [d \in Devices |-> << >>]
    /\ lastSync = [d \in Devices |-> 0]
    /\ isOnline = [d \in Devices |-> TRUE]
    /\ isSyncing = [d \in Devices |-> FALSE]
    /\ sock = [d \in Devices |-> NoSock]
    /\ events = [d \in Devices |-> {}]
    /\ created = [d \in Devices |-> 0]
    /\ flow = [k \in DevConns |-> NoFlow]
    /\ nextSock = 0
    /\ storage = [d \in Devices |-> "InMemoryStorage"]
    /\ replay = [d \in Devices |-> NoReplay]
    /\ raised = [d \in Devices |-> "none"]
    /\ reconnectTimer = [d \in Devices |-> FALSE]
    /\ syncListeners = [d \in Devices |-> << >>]
    /\ heard = [d \in Devices |-> NoDelivery]
    /\ peerConn = {}

(* the six steps of the note routes that write, for a request on any connection *)
Routes ==
    \/ \E k \in Conns : SrvCreate(k)
    \/ \E k \in Conns : SrvPutFind(k)
    \/ \E k \in Conns : SrvPutSnapshot(k)
    \/ \E k \in Conns : SrvPutUpdate(k)
    \/ \E k \in Conns : SrvDeleteFind(k)
    \/ \E k \in Conns : SrvDeleteUpdate(k)

(* the web app of the device's user: handleSaveNote sends title and content only *)
WebApp ==
    \/ \E p \in WebPayloads : WebPost("w1", "u1", p)
    \/ \E id \in 1..MaxNotes, p \in WebPayloads : WebPut("w1", "u1", id, p, << >>)
    \/ \E id \in 1..MaxNotes : WebDelete("w1", "u1", id)
    \/ \E k \in Conns : WebReceive(k)

SocketServer ==
    \/ \E s \in SockIds : SrvRegister(s)
    \/ \E s \in SockIds : SrvSyncRequest(s)
    \/ \E s \in SockIds : SrvDisconnect(s)

(* the device's sync passes and what its socket delivers *)
DevSync ==
    \/ \E d \in Devices : DevConnect(d)
    \/ \E d \in Devices : DevDisconnect(d)
    \/ \E d \in Devices : DevFullSyncSocket(d)
    \/ \E d \in Devices : DevFullSyncHttp(d)
    \/ \E d \in Devices : DevHttpSyncDone(d)
    \/ \E k \in Conns : SrvList(k)
    \/ \E d \in Devices : NetFail(d)
    \/ \E d \in Devices : DevOnNoteCreated(d)
    \/ \E d \in Devices : DevOnSyncResponse(d)
    \/ \E d \in Devices : DevOnOther(d)

(* the pushes of updates and soft deletes the device's socket delivers *)
DevPush ==
    \/ \E d \in Devices : DevOnNoteUpdated(d)
    \/ \E d \in Devices : DevOnNoteDeleted(d)

(* the device's user edits and deletes notes the device holds *)
DevEdit ==
    \/ \E d \in Devices : \E id \in DOMAIN local[d], p \in DevPayloads : DevUpdateNote(d, id, p)
    \/ \E d \in Devices : DevUpdateDone(d)
    \/ \E d \in Devices : \E id \in DOMAIN local[d] : DevDeleteNote(d, id)
    \/ \E d \in Devices : DevDeleteDone(d)

(* the device's user creates notes *)
DevCreate ==
    \/ \E d \in Devices, p \in DevPayloads : DevCreateNote(d, p)
    \/ \E d \in Devices : DevCreateDone(d)

(* The version arbiter: the note routes driven by arbitrary HTTP callers, which
   cover whatever the web app and the devices send: u1 creates notes, and both u1
   and another user update and delete them with any clientVersion.  The device's
   socket is connected and registered, so the pushes of the routes have a receiver. *)
InitServer ==
    /\ notes = << >>
    /\ noteVersions = << >>
    /\ clock = 0
    /\ reqs = [k \in Conns |-> FreeReq]
    /\ rooms = [u \in Users |-> IF u = "u1" THEN {1} ELSE {}]
    /\ sockUser = [s \in SockIds |-> IF s = 1 THEN "u1" ELSE "none"]
    /\ sockDevice = [s \in SockIds |-> IF s = 1 THEN "d1" ELSE "none"]
    /\ srvOpen = {1}
    /\ userSessions = [u \in Users |-> IF u = "u1" THEN {1} ELSE {}]
    /\ deviceSessions = Put(<< >>, "d1", 1)
    /\ deviceDb = Put(<< >>, "d1", [userId |-> "u1", sessionToken |-> 1, isActive |-> TRUE])
    /\ toClient = [s \in SockIds |-> << >>]
    /\ toServer = [s \in SockIds |-> << >>]
    /\ local = [d \in Devices |-> << >>]
    /\ syncQueue = [d \in Devices |-> << >>]
    /\ lastSync = [d \in Devices |-> 0]
    /\ isOnline = [d \in Devices |-> TRUE]
    /\ isSyncing = [d \in Devices |-> FALSE]
    /\ sock = [d \in Devices |-> [id |-> 1, phase |-> "connected"]]
    /\ events = [d \in Devices |-> {Event("devicesUpdated", 0)}]
    /\ created = [d \in Devices |-> 0]
    /\ flow = [k \in DevConns |-> NoFlow]
    /\ nextSock = 1
    /\ storage = [d \in Devices |-> "InMemoryStorage"]
    /\ replay = [d \in Devices |-> NoReplay]
    /\ raised = [d \in Devices |-> "none"]
    /\ reconnectTimer = [d \in Devices |-> FALSE]
    /\ syncListeners = [d \in Devices |-> << >>]
    /\ heard = [d \in Devices |-> NoDelivery]
    /\ peerConn = {}

Callers ==
    \/ \E c \in WebConns, p \in Payloads : WebPost(c, "u1", p)
    \/ \E c \in WebConns, u \in Users, id \in 1..MaxNotes, p \in Payloads, cv \in ClientVersions :
          WebPut(c, u, id, p, cv)
    \/ \E c \in WebConns, u \in Users, id \in 1..MaxNotes : WebDelete(c, u, id)
    \/ \E k \in Conns : WebReceive(k)

NextServer == Routes \/ Callers

SpecServer == InitServer /\ [][NextServer]_vars

(* Two clients of one user that send every update with the version the note has
   at that moment, as updateNote does with the version of a copy that is up to date *)
CurrentCallers ==
    \/ \E c \in WebConns, p \in Payloads : WebPost(c, "u1", p)
    \/ \E c \in WebConns, id \in DOMAIN notes, p \in Payloads :
          WebPut(c, "u1", id, p, << notes[id].version >>)
    \/ \E k \in Conns : WebReceive(k)

NextRace ==
    \/ \E k \in Conns : SrvCreate(k)
    \/ \E k \in Conns : SrvPutFind(k)
    \/ \E k \in Conns : SrvPutSnapshot(k)
    \/ \E k \in Conns : SrvPutUpdate(k)
    \/ CurrentCallers

SpecRace == InitServer /\ [][NextRace]_vars

(* One socket session of a device whose user edits and deletes the notes it holds,
   next to the web app of the same user *)
NextSession ==
    \/ Routes
    \/ WebApp
    \/ SocketServer
    \/ \E d \in Devices : sock[d] = NoSock /\ DevInitSocket(d)
    \/ DevSync
    \/ DevPush
    \/ DevEdit

SpecSession == Init /\ [][NextSession]_vars

(* the ids a caller of updateNote and deleteNote may pass: ids of server notes and
   ids generateId() hands out *)
CallIds == (1..MaxNotes) \cup { ClientId(n) : n \in 1..MaxCreates }

(* The editing device next to a web app that only creates notes; the device's user
   also calls updateNote and deleteNote with ids the device holds no note for, or a
   deleted one *)
NextEditCalls ==
    \/ Routes
    \/ \E p \in WebPayloads : WebPost("w1", "u1", p)
    \/ \E k \in Conns : WebReceive(k)
    \/ SocketServer
    \/ \E d \in Devices : sock[d] = NoSock /\ DevInitSocket(d)
    \/ DevSync
    \/ DevPush
    \/ DevEdit
    \/ \E d \in Devices, id \in CallIds, p \in DevPayloads : DevUpdateNoteThrows(d, id, p)
    \/ \E d \in Devices, id \in CallIds : DevDeleteNoteReturns(d, id)

SpecEditCalls == Init /\ [][NextEditCalls]_vars

(* The fan-out: the note routes driven by an HTTP caller that creates notes for
   either user and updates and deletes them as u1, and the sockets of other clients
   that register for either user *)
NextFanOut ==
    \/ Routes
    \/ \E u \in Users, p \in WebPayloads : WebPost("w1", u, p)
    \/ \E id \in 1..MaxNotes, p \in WebPayloads : WebPut("w1", "u1", id, p, << >>)
    \/ \E id \in 1..MaxNotes : WebDelete("w1", "u1", id)
    \/ \E k \in Conns : WebReceive(k)
    \/ \E s \in SockIds : SrvRegister(s)
    \/ \E s \in SockIds : SrvDisconnect(s)
    \/ Peers

SpecFanOut == Init /\ [][NextFanOut]_vars

(* The delta merge on its own: a connected device with any store over a few ids,
   on either storage class, that has been sent the same 'sync-response' twice *)
MergeIds == 1..MaxMerge

(* versions a stored or a sent note may have, and how many notes a response carries *)
MergeVersions == 1..2

MergeLengths == 0..2

(* the notes a response may carry: any id and version, deleted or not *)
MergeNotes ==
    { [NoNote EXCEPT !.id = i, !.owner = "u1", !.title = "a", !.content = "x",
                     !.version = v, !.updatedAt = v, !.deletedAt = del] :
        i \in MergeIds, v \in MergeVersions, del \in {0, 1} }

MergeResponses == UNION { [1..n -> MergeNotes] : n \in MergeLengths }

(* the objects InMemoryStorage may hold for an id: saved as pending or as synced,
   deleted locally or not; and the rows OfflineStorage may hold *)
MergeObjects(wiring, i) ==
    IF wiring = "InMemoryStorage"
    THEN { [NoLocal EXCEPT !.id = i, !.title = "b", !.content = "y", !.version = v,
                           !.localOnly = lo, !.isDeleted = del] :
             v \in MergeVersions, lo \in BOOLEAN, del \in BOOLEAN }
    ELSE { [NoLocal EXCEPT !.id = i, !.title = "b", !.content = "y", !.version = v,
                           !.syncStatus = st, !.deletedAt = del] :
             v \in MergeVersions, st \in {"pending", "synced"}, del \in {0, 1} }

MergeStores(wiring) ==
    UNION { { f \in [D -> UNION { MergeObjects(wiring, i) : i \in D }] :
                \A i \in D : f[i].id = i } : D \in SUBSET MergeIds }

InitMerge ==
    /\ notes = << >> /\ noteVersions = << >> /\ clock = 0
    /\ reqs = [k \in Conns |-> FreeReq]
    /\ rooms = [u \in Users |-> IF u = "u1" THEN {1} ELSE {}]
    /\ sockUser = [s \in SockIds |-> IF s = 1 THEN "u1" ELSE "none"]
    /\ sockDevice = [s \in SockIds |-> IF s = 1 THEN "d1" ELSE "none"]
    /\ srvOpen = {1}
    /\ userSessions = [u \in Users |-> IF u = "u1" THEN {1} ELSE {}]
    /\ deviceSessions = Put(<< >>, "d1", 1)
    /\ deviceDb = Put(<< >>, "d1", [userId |-> "u1", sessionToken |-> 1, isActive |-> TRUE])
    /\ toServer = [s \in SockIds |-> << >>]
    /\ syncQueue = [d \in Devices |-> << >>]
    /\ lastSync = [d \in Devices |-> 0]
    /\ isOnline = [d \in Devices |-> TRUE]
    /\ isSyncing = [d \in Devices |-> FALSE]
    /\ sock = [d \in Devices |-> [id |-> 1, phase |-> "connected"]]
    /\ events = [d \in Devices |-> {}]
    /\ created = [d \in Devices |-> 0]
    /\ flow = [k \in DevConns |-> NoFlow]
    /\ nextSock = 1
    /\ replay = [d \in Devices |-> NoReplay]
    /\ raised = [d \in Devices |-> "none"]
    /\ reconnectTimer = [d \in Devices |-> FALSE]
    /\ syncListeners = [d \in Devices |-> << >>]
    /\ heard = [d \in Devices |-> NoDelivery]
    /\ peerConn = {}
    /\ storage \in [Devices -> {"InMemoryStorage", "OfflineStorage"}]
    /\ local \in [Devices -> UNION { MergeStores(w) : w \in {"InMemoryStorage", "OfflineStorage"} }]
    /\ \A d \in Devices : local[d] \in MergeStores(storage[d])
    /\ \E ns \in MergeResponses :
          LET m == [PushMsg("sync-response", NoNote) EXCEPT !.notes = ns, !.syncTime = 1]
          IN toClient = [s \in SockIds |-> IF s = 1 THEN << m, m >> ELSE << >>]

NextMerge == \E d \in Devices : DevOnSyncResponse(d)

SpecMerge == InitMerge /\ [][NextMerge]_vars

(* The socket of a device on its own: initialize() opens it, the transport is lost
   and the reconnect timer runs, the app disconnects it and forces reconnects, and
   sync passes run over the socket and over HTTP.  A timer that is pending fires. *)
NextPolicy ==
    \/ SocketServer
    \/ \E d \in Devices : sock[d] = NoSock /\ ~reconnectTimer[d] /\ DevInitSocket(d)
    \/ \E d \in Devices : DevReconnectTimer(d)
    \/ \E d \in Devices : DevConnect(d)
    \/ \E d \in Devices : DevDisconnect(d)
    \/ \E d \in Devices : DevDisconnectSocket(d)
    \/ \E d \in Devices : DevForceReconnect(d)
    \/ \E d \in Devices : DevFullSyncSocket(d)
    \/ \E d \in Devices : DevFullSyncHttp(d)
    \/ \E d \in Devices : DevHttpSyncDone(d)
    \/ \E k \in Conns : SrvList(k)
    \/ \E d \in Devices : NetFail(d)
    \/ \E d \in Devices : DevOnSyncResponse(d)
    \/ \E d \in Devices : DevOnOther(d)

TimersFire == \A d \in Devices : WF_vars(DevReconnectTimer(d))

SpecPolicy == Init /\ [][NextPolicy]_vars /\ TimersFire

(* The event listeners of SyncService.  The callbacks are the caller's code: one
   returns, one throws, and one is a one-shot listener that unsubscribes itself
   with removeSyncListener when it is called. *)
Callbacks == {"returns", "throws", "unsubscribes"}

(* indexOf(callback): the first position of the callback, 0 when it is not there *)
IndexOf(list, cb) ==
    IF \E i \in DOMAIN list : list[i] = cb
    THEN CHOOSE i \in DOMAIN list : list[i] = cb /\ \A j \in 1..(i - 1) : list[j] # cb
    ELSE 0

(* splice(index, 1) *)
Splice(list, index) ==
    [i \in 1..(Len(list) - 1) |-> IF i < index THEN list[i] ELSE list[i + 1]]

(* removeSyncListener(callback): indexOf, then splice when index > -1 *)
RemoveSyncListener(list, cb) ==
    IF IndexOf(list, cb) > 0 THEN Splice(list, IndexOf(list, cb)) ELSE list

(* try { callback(event, data) } catch (error) { console.error(...) }: whether what
   the callback throws leaves notifyListeners *)
Escapes(cb) == FALSE

(* this.syncListeners.forEach(...): the length is read once, the positions 1..len are
   visited in order, and a position the array no longer has is passed over *)
RECURSIVE ForEachListener(_, _, _, _)
ForEachListener(list, k, len, done) ==
    IF k > len THEN [list |-> list, done |-> done]
    ELSE IF k > Len(list) THEN ForEachListener(list, k + 1, len, done)
    ELSE LET cb == list[k]
             after == IF cb = "unsubscribes" THEN RemoveSyncListener(list, cb) ELSE list
         IN ForEachListener(after, k + 1, len,
                [calls |-> Append(done.calls, cb),
                 propagated |-> done.propagated \/ (cb = "throws" /\ Escapes(cb))])

DevAddSyncListener(d, cb) ==
    /\ Len(syncListeners[d]) < MaxListeners
    /\ syncListeners' = [syncListeners EXCEPT ![d] = Append(@, cb)]
    /\ UNCHANGED <<heard, storage, replay, raised, reconnectTimer, dbVars, sessVars, reqs,
                   chanVars, local, syncQueue, lastSync, isOnline, isSyncing, events, created,
                   flow, connVars>>

DevRemoveSyncListener(d, cb) ==
    /\ syncListeners' = [syncListeners EXCEPT ![d] = RemoveSyncListener(@, cb)]
    /\ UNCHANGED <<heard, storage, replay, raised, reconnectTimer, dbVars, sessVars, reqs,
                   chanVars, local, syncQueue, lastSync, isOnline, isSyncing, events, created,
                   flow, connVars>>

(* notifyListeners(event, data), for any event *)
DevNotifyListeners(d) ==
    LET r == ForEachListener(syncListeners[d], 1, Len(syncListeners[d]), NoDelivery)
    IN /\ syncListeners' = [syncListeners EXCEPT ![d] = r.list]
       /\ heard' = [heard EXCEPT ![d] = r.done]
       /\ UNCHANGED <<storage, replay, raised, reconnectTimer, dbVars, sessVars, reqs,
                      chanVars, local, syncQueue, lastSync, isOnline, isSyncing, events, created,
                      flow, connVars>>

NextListeners ==
    \/ \E d \in Devices, cb \in Callbacks : DevAddSyncListener(d, cb)
    \/ \E d \in Devices, cb \in Callbacks : DevRemoveSyncListener(d, cb)
    \/ \E d \in Devices : DevNotifyListeners(d)

SpecListeners == Init /\ [][NextListeners]_vars

(* Overlapping calls: the user of an editing device saves a note again while an
   earlier updateNote or deleteNote of the device still awaits the server *)
NextOverlap ==
    \/ Routes
    \/ \E p \in WebPayloads : WebPost("w1", "u1", p)
    \/ \E k \in Conns : WebReceive(k)
    \/ SocketServer
    \/ \E d \in Devices : sock[d] = NoSock /\ DevInitSocket(d)
    \/ DevSync
    \/ DevPush
    \/ DevEdit
    \/ \E d \in Devices : \E id \in DOMAIN local[d], p \in DevPayloads :
          DevUpdateNoteMeanwhile(d, id, p)
    \/ \E d \in Devices : DevUpdateMeanwhileDone(d)
    \/ \E d \in Devices : NetFailMeanwhile(d)

SpecOverlap == Init /\ [][NextOverlap]_vars

(* A device that only receives: it connects, loses the connection, reconnects and
   syncs, while the web app of the same user writes *)
NextReconnect ==
    \/ Routes
    \/ WebApp
    \/ SocketServer
    \/ \E d \in Devices : DevInitSocket(d)
    \/ DevSync
    \/ DevPush

SpecReconnect == Init /\ [][NextReconnect]_vars

(* The receiving device again, under a schedule in which every update and every
   soft delete is committed while the device's socket is closed after having been
   connected, so that the device gets none of their pushes *)
Disconnected(d) == sock[d].phase = "closed"

NextMissed ==
    \/ \E k \in Conns : SrvCreate(k)
    \/ \E k \in Conns : SrvPutFind(k)
    \/ \E k \in Conns : SrvPutSnapshot(k)
    \/ \E k \in Conns : (\A d \in Devices : Disconnected(d)) /\ SrvPutUpdate(k)
    \/ \E k \in Conns : SrvDeleteFind(k)
    \/ \E k \in Conns : (\A d \in Devices : Disconnected(d)) /\ SrvDeleteUpdate(k)
    \/ WebApp
    \/ SocketServer
    \/ \E d \in Devices : DevInitSocket(d)
    \/ DevSync

SpecMissed == Init /\ [][NextMissed]_vars

(* The outbound queue.  SyncService calls its storage with the arguments and reads
   the rows of OfflineStorage (addToSyncQueue(type, noteId, data); item.id, item.data,
   item.operation_type, item.note_id, item.retry_count); with InMemoryStorage no
   queued entry reaches a request.  SpecReplay is the device on OfflineStorage while
   its socket has not connected: isOnline keeps its initial true, every call goes
   over HTTP, a failed call is queued and the sync passes replay the queue. *)
InitOffline ==
    /\ notes = << >> /\ noteVersions = << >> /\ clock = 0
    /\ reqs = [k \in Conns |-> FreeReq]
    /\ rooms = [u \in Users |-> {}]
    /\ sockUser = [s \in SockIds |-> "none"]
    /\ sockDevice = [s \in SockIds |-> "none"]
    /\ srvOpen = {}
    /\ userSessions = [u \in Users |-> {}]
    /\ deviceSessions = << >>
    /\ deviceDb = << >>
    /\ toClient = [s \in SockIds |-> << >>]
    /\ toServer = [s \in SockIds |-> << >>]
    /\ local = [d \in Devices |-> << >>]
    /\ syncQueue = [d \in Devices |-> << >>]
    /\ lastSync = [d \in Devices |-> 0]
    /\ isOnline = [d \in Devices |-> TRUE]
    /\ isSyncing = [d \in Devices |-> FALSE]
    /\ sock = [d \in Devices |-> NoSock]
    /\ events = [d \in Devices |-> {}]
    /\ created = [d \in Devices |-> 0]
    /\ flow = [k \in DevConns |-> NoFlow]
    /\ nextSock = 0
    /\ storage = [d \in Devices |-> "OfflineStorage"]
    /\ replay = [d \in Devices |-> NoReplay]
    /\ raised = [d \in Devices |-> "none"]
    /\ reconnectTimer = [d \in Devices |-> FALSE]
    /\ syncListeners = [d \in Devices |-> << >>]
    /\ heard = [d \in Devices |-> NoDelivery]
    /\ peerConn = {}

DevReplay ==
    \E d \in Devices :
        \/ DevReplayStart(d)
        \/ DevReplaySettled(d)

NextReplay ==
    \/ Routes
    \/ \E k \in Conns : SrvList(k)
    \/ WebApp
    \/ \E d \in Devices : sock[d] = NoSock /\ DevInitSocket(d)
    \/ \E d \in Devices : DevFullSyncHttp(d) \/ DevHttpSyncDone(d) \/ NetFail(d)
    \/ DevEdit
    \/ DevCreate
    \/ DevReplay

SpecReplay == InitOffline /\ [][NextReplay]_vars

(* Replay with the socket connected: the device creates notes whose POST may fail,
   and its passes send the queued entries and then request the delta on the socket *)
NextReplayOnline ==
    \/ \E k \in Conns : SrvCreate(k)
    \/ \E s \in SockIds : SrvRegister(s)
    \/ \E s \in SockIds : SrvSyncRequest(s)
    \/ \E d \in Devices : sock[d] = NoSock /\ DevInitSocket(d)
    \/ \E d \in Devices : DevConnect(d)
    \/ \E d \in Devices : DevFullSyncSocket(d)
    \/ \E d \in Devices : NetFail(d)
    \/ \E d \in Devices : DevOnNoteCreated(d)
    \/ \E d \in Devices : DevOnSyncResponse(d)
    \/ \E d \in Devices : DevOnOther(d)
    \/ DevCreate
    \/ DevReplay

SpecReplayOnline == InitOffline /\ [][NextReplayOnline]_vars

(* Offline editing: the device receives the notes of its user, loses its socket,
   edits while isOnline is false, reconnects and syncs.  The web app only creates
   notes, so the device's edits are the only changes to them. *)
NextOfflineEdit ==
    \/ \E k \in Conns : SrvCreate(k)
    \/ \E p \in WebPayloads : WebPost("w1", "u1", p)
    \/ \E k \in Conns : WebReceive(k)
    \/ SocketServer
    \/ \E d \in Devices : DevInitSocket(d)
    \/ DevSync
    \/ \E d \in Devices : \E id \in DOMAIN local[d], p \in DevPayloads :
          ~isOnline[d] /\ DevUpdateNote(d, id, p)
    \/ \E d \in Devices : \E id \in DOMAIN local[d] : ~isOnline[d] /\ DevDeleteNote(d, id)
    \/ \E d \in Devices, p \in DevPayloads : ~isOnline[d] /\ DevCreateNote(d, p)

SpecOfflineEdit == Init /\ [][NextOfflineEdit]_vars

(* Delta syncs with the handler of 'sync-request' suspended at its query: the
   routes commit writes of the web app while the query of a request has returned
   and its answer has not been emitted *)
NextDelta ==
    \/ Routes
    \/ WebApp
    \/ \E s \in SockIds : SrvRegister(s)
    \/ \E s \in SockIds : SrvSyncRequestFind(s)
    \/ \E s \in SockIds : SrvSyncRequestEmit(s)
    \/ \E s \in SockIds : SrvDisconnect(s)
    \/ \E d \in Devices : DevInitSocket(d)
    \/ DevSync
    \/ DevPush

SpecDelta == Init /\ [][NextDelta]_vars

(* Creates replayed: the device on OfflineStorage creates a note while its socket
   has not connected; the POST or its answer may be lost, the failed create is
   queued and a later pass replays it.  The table has room for the rows of the
   replays. *)
NextCreateReplay ==
    \/ \E k \in Conns : SrvCreateWithin(k, MaxReplayNotes)
    \/ \E k \in Conns : SrvList(k)
    \/ \E d \in Devices : sock[d] = NoSock /\ DevInitSocket(d)
    \/ \E d \in Devices : DevFullSyncHttp(d) \/ DevHttpSyncDone(d) \/ NetFail(d)
    \/ DevCreate
    \/ DevReplay

SpecCreateReplay == InitOffline /\ [][NextCreateReplay]_vars

(* Creates confirmed: the device, on the storage SyncService imports, is the only
   client; its user creates a note and edits the notes the device holds, and the
   passes fetch the delta over HTTP *)
NextCreateOnline ==
    \/ Routes
    \/ \E k \in Conns : SrvList(k)
    \/ \E d \in Devices : sock[d] = NoSock /\ DevInitSocket(d)
    \/ \E d \in Devices : DevFullSyncHttp(d) \/ DevHttpSyncDone(d) \/ NetFail(d)
    \/ DevCreate
    \/ DevEdit

SpecCreateOnline == Init /\ [][NextCreateOnline]_vars

(* The sync coordinator alone: sockets come and go and passes run, over the socket
   and over HTTP, with no note written.  Every call the device makes settles, with
   an answer or with an error, and the continuation of a settled call runs. *)
NextCoordinator ==
    \/ SocketServer
    \/ \E d \in Devices : DevInitSocket(d)
    \/ \E d \in Devices : DevConnect(d)
    \/ \E d \in Devices : DevDisconnect(d)
    \/ \E d \in Devices : DevFullSyncSocket(d)
    \/ \E d \in Devices : DevFullSyncHttp(d)
    \/ \E d \in Devices : DevHttpSyncDone(d)
    \/ \E k \in Conns : SrvList(k)
    \/ \E d \in Devices : NetFail(d)
    \/ \E d \in Devices : DevOnSyncResponse(d)
    \/ \E d \in Devices : DevOnOther(d)

CallsSettle ==
    \A d \in Devices :
        /\ WF_vars(SrvList(d) \/ NetFail(d))
        /\ WF_vars(DevHttpSyncDone(d))

SpecCoordinator == Init /\ [][NextCoordinator]_vars /\ CallsSettle

(* the whole system: the server, one mobile device and the web app *)
Next ==
    \/ Routes
    \/ WebApp
    \/ SocketServer
    \/ \E d \in Devices : DevInitSocket(d)
    \/ DevSync
    \/ DevPush
    \/ DevEdit
    \/ DevCreate

Spec == Init /\ [][Next]_vars

----------------------------------------------------------------------------
(* Version arbiter *)

(* the step answers the request on connection k with one of these statuses *)
Answers(k, statuses) ==
    /\ reqs[k].stage # "responded"
    /\ reqs'[k].stage = "responded"
    /\ reqs'[k].status \in statuses

(* C1: a note is created with version 1, every accepted mutation (a PUT answered
   200, a DELETE answered 204) raises the version of its note by exactly 1, and no
   step lowers the stored version of a note or changes a row without raising it. *)
C1_VersionStrictlyIncreasing ==
    [][ /\ \A id \in DOMAIN notes :
              /\ id \in DOMAIN notes'
              /\ notes'[id].version >= notes[id].version
              /\ notes'[id] # notes[id] => notes'[id].version = notes[id].version + 1
        /\ \A id \in DOMAIN notes' \ DOMAIN notes : notes'[id].version = 1
        /\ \A k \in Conns : Answers(k, {200, 204}) /\ reqs[k].op \in {"PUT", "DELETE"} =>
              notes'[reqs[k].id].version = notes[reqs[k].id].version + 1 ]_vars

(* C1 witness: an update has been accepted and its note stands at version 2 *)
C1_Witness ==
    \E k \in Conns :
        /\ reqs[k].stage = "responded" /\ reqs[k].op = "PUT" /\ reqs[k].status = 200
        /\ reqs[k].body.version = 2
        /\ notes[reqs[k].id].version = 2

(* C2: a step that answers a PUT with 409 or 403, or a DELETE with 403, is the
   first step of that request and leaves every note row, the snapshot history and
   every socket's pushes as they were; the body of a 409 is the stored row. *)
C2_RejectedApplyLeavesState ==
    [][ \A k \in Conns : Answers(k, {403, 409}) =>
            /\ reqs[k].stage = "sent"
            /\ notes' = notes
            /\ noteVersions' = noteVersions
            /\ toClient' = toClient
            /\ reqs'[k].status = 409 => reqs'[k].body = notes[reqs[k].id] ]_vars

(* C2 witness: an update of a note at version 2 has been answered 409 with that row,
   a DELETE has been answered 403, and the accepted writes before them were pushed *)
C2_Witness ==
    /\ \E k \in Conns :
          /\ reqs[k].stage = "responded" /\ reqs[k].op = "PUT" /\ reqs[k].status = 409
          /\ reqs[k].body.version = 2
          /\ reqs[k].body = notes[reqs[k].id]
    /\ \E k \in Conns :
          reqs[k].stage = "responded" /\ reqs[k].op = "DELETE" /\ reqs[k].status = 403
    /\ Len(toClient[1]) = 2
    /\ Len(noteVersions) = 1

(* C3: an update of a note the caller owns is accepted if and only if the request
   carries a clientVersion that is at least the version of the stored row; a
   request without clientVersion, or with clientVersion 0, is rejected. *)
C3_AcceptIffClientNotBehind ==
    [][ \A k \in Conns :
            (/\ reqs[k].stage = "sent" /\ reqs[k].op = "PUT"
             /\ reqs'[k] # reqs[k]
             /\ reqs[k].id \in DOMAIN notes
             /\ notes[reqs[k].id].owner = reqs[k].user)
            => (reqs'[k].stage = "checked"
                  <=> (Len(reqs[k].cv) = 1 /\ reqs[k].cv[1] >= notes[reqs[k].id].version)) ]_vars

(* C4: of the updates of one note that carried the version the note had, no two
   are past the version check against the same version of the row. *)
C4_CheckAndIncrementAtomic ==
    \A j, k \in Conns :
        (/\ j # k
         /\ reqs[j].op = "PUT" /\ reqs[k].op = "PUT"
         /\ reqs[j].id = reqs[k].id
         /\ reqs[j].stage \in {"checked", "snapshotted"}
         /\ reqs[k].stage \in {"checked", "snapshotted"})
        => reqs[j].read.version # reqs[k].read.version

----------------------------------------------------------------------------
(* Merge and conflict policy on the device *)

NotePushes == {"note:created", "note:updated", "note:deleted"}

(* the step is the device's handler of the next message of its socket, of one of these types *)
Handles(d, types) ==
    /\ Connected(d)
    /\ toClient[sock[d].id] # << >>
    /\ Head(toClient[sock[d].id]).type \in types
    /\ sock' = sock
    /\ toClient' = Delivered(d)

(* the step is the end of an HTTP sync pass whose GET was answered 200 *)
HttpMerges(d) ==
    /\ flow[d].kind = "httpSync" /\ flow'[d] = NoFlow
    /\ reqs[d].stage = "responded" /\ reqs[d].status = 200

(* the step merges a delta response, and the notes of that response *)
Merges(d) == Handles(d, {"sync-response"}) \/ HttpMerges(d)
Merged(d) ==
    IF Handles(d, {"sync-response"}) THEN Head(toClient[sock[d].id]).notes
    ELSE IF HttpMerges(d) THEN reqs[d].list
    ELSE << >>

(* the stored copy of id is pending: saved with status 'pending' and not yet synced *)
Pending(d, id) == GetNoteById(local[d], id) # NoLocal /\ local[d][id].localOnly

(* the step keeps the stored copy of id with its title, content and version *)
Keeps(d, id) ==
    /\ id \in DOMAIN local'[d]
    /\ local'[d][id].title = local[d][id].title
    /\ local'[d][id].content = local[d][id].content
    /\ local'[d][id].version = local[d][id].version

(* C5: when the device handles a note:created, note:updated or note:deleted push
   for a note whose stored copy is pending, the copy is marked conflict and keeps
   its title, content and version. *)
C5_PushOnPendingMarksConflict ==
    [][ \A d \in Devices : Handles(d, NotePushes) =>
            LET id == Head(toClient[sock[d].id]).note.id
            IN Pending(d, id) => Keeps(d, id) /\ local'[d][id].hasConflict ]_vars

(* C6: when a sync pass merges a delta response holding a note whose stored copy
   is pending, the copy keeps its title, content and version, is marked conflict,
   and a 'conflict' event with the local and the remote version is raised. *)
C6_MergeOnPendingMarksConflict ==
    [][ \A d \in Devices : Merges(d) =>
            \A i \in 1..Len(Merged(d)) :
                LET n == Merged(d)[i]
                IN Pending(d, n.id) =>
                      /\ Keeps(d, n.id)
                      /\ local'[d][n.id].hasConflict
                      /\ ConflictEvent(local[d][n.id], FromServer(n)) \in events'[d] ]_vars

(* the step detects a conflict for note id against a remote copy of version v: a
   note:updated or note:deleted push meets a pending copy, or the device's own
   update is answered 409 *)
DetectsConflict(d, id, v) ==
    \/ /\ Handles(d, {"note:updated", "note:deleted"})
       /\ Head(toClient[sock[d].id]).note.id = id
       /\ Head(toClient[sock[d].id]).note.version = v
       /\ Pending(d, id)
    \/ /\ flow[d].kind = "update" /\ flow'[d] = NoFlow
       /\ reqs[d].stage = "responded" /\ reqs[d].status = 409
       /\ flow[d].note.id = id
       /\ reqs[d].body.version = v

(* C7: every step that detects a conflict for a stored note delivers a 'conflict'
   event for it with the remote version to the listeners and marks the note conflict. *)
C7_ConflictAlwaysSurfaced ==
    [][ \A d \in Devices : \A id \in DOMAIN local[d] : \A v \in 0..(MaxCommits + 1) :
            DetectsConflict(d, id, v) =>
                /\ \E e \in events'[d] : e.ev = "conflict" /\ e.id = id /\ e.remoteVersion = v
                /\ id \in DOMAIN local'[d] /\ local'[d][id].hasConflict ]_vars

(* C8: a stored note that is marked conflict keeps its title and content through
   every push the device handles and every delta response it merges. *)
C8_ConflictedNoteSurvives ==
    [][ \A d \in Devices :
            Handles(d, NotePushes) \/ Merges(d) =>
                \A id \in DOMAIN local[d] :
                    local[d][id].hasConflict =>
                        /\ id \in DOMAIN local'[d]
                        /\ local'[d][id].title = local[d][id].title
                        /\ local'[d][id].content = local[d][id].content ]_vars

----------------------------------------------------------------------------
(* Checkpoint and delta sync *)

(* C9: the checkpoint changes only in a step that merges a delta response. *)
C9_CheckpointOnlyAfterMerge ==
    [][ \A d \in Devices : lastSync'[d] # lastSync[d] => Merges(d) ]_vars

(* C10: a note whose last write was an update or a soft delete committed while
   the device was disconnected, and of which the device holds no pending edit: once
   the device has reconnected and merged the response of a sync pass, a
   soft-deleted note is not among getAllNotes
   and an updated note is stored with the server's version. *)
C10_SyncRecoversMissedPush ==
    [][ \A d \in Devices : Handles(d, {"sync-response"}) =>
            \A id \in DOMAIN notes :
                (/\ notes[id].owner = UserOf(d)
                 /\ notes[id].version > 1
                 /\ ~Pending(d, id))
                => IF notes[id].deletedAt # 0
                   THEN \A n \in GetAllNotes(local'[d]) : n.id # id
                   ELSE \E n \in GetAllNotes(local'[d]) :
                           n.id = id /\ n.version = notes[id].version ]_vars

----------------------------------------------------------------------------
(* Delta query *)

(* since(timestamp) as specified: the caller's rows changed after the timestamp,
   soft-deleted ones included, newest change first *)
Since(userId, timestamp) ==
    SelectSeq(ByUpdatedDesc(Now(clock)),
              LAMBDA n : n.owner = userId /\ n.updatedAt > timestamp)

(* the step is the server's answer to the 'sync-request' at the head of socket s *)
AnswersSyncRequest(s) ==
    /\ s \in srvOpen /\ toServer[s] # << >> /\ Head(toServer[s]).type = "sync-request"
    /\ sockUser[s] = Head(toServer[s]).userId
    /\ toServer'[s] = Tail(toServer[s])
    /\ Len(toClient'[s]) = Len(toClient[s]) + 1

(* the step is the server's answer to the GET /notes?since= of device d's sync pass;
   the since parameter of that request is the checkpoint the pass read *)
AnswersHttpSync(d) ==
    /\ flow[d].kind = "httpSync"
    /\ reqs[d].stage = "sent" /\ reqs[d].op = "GET"
    /\ reqs'[d].stage = "responded" /\ reqs'[d].status = 200

(* C11: the answer to a delta query, over the socket and over HTTP, is exactly
   the caller's notes changed after the given timestamp, soft-deleted notes
   included, ordered by updatedAt descending. *)
C11_DeltaQueryExact ==
    [][ /\ \A s \in SockIds : AnswersSyncRequest(s) =>
              LET m == Head(toServer[s])
                  answer == toClient'[s][Len(toClient'[s])]
              IN answer.notes = Since(m.userId, m.lastSyncTime)
        /\ \A d \in Devices : AnswersHttpSync(d) =>
              reqs'[d].list = Since(UserOf(d), lastSync[d]) ]_vars

----------------------------------------------------------------------------
(* Outbound queue and replay *)

(* the step emits a 'sync-request' on the device's socket: the pass has gone
   through the queue *)
EmitsSyncRequest(d) ==
    \E s \in SockIds :
        /\ sock'[d].id = s
        /\ Len(toServer'[s]) > Len(toServer[s])
        /\ toServer'[s][Len(toServer'[s])].type = "sync-request"

(* the step is one in which a sync pass has gone through the queue without an error *)
PassReplayed(d) == EmitsSyncRequest(d) \/ HttpMerges(d)

(* the stored object carries an edit the server has not acknowledged *)
EditedOffline(n) == n.localOnly \/ n.isDeleted

(* the server row an online session would have left for the stored object: the same
   title and content, the version the device counts (one more after a delete, which
   the device does not count), and deleted when the device deleted it *)
AsIssuedOnline(n, row) ==
    /\ row.owner = "u1"
    /\ n.id > 0 => row.id = n.id
    /\ n.isDeleted \/ (row.title = n.title /\ row.content = n.content)
    /\ row.version = n.version + (IF n.isDeleted THEN 1 ELSE 0)
    /\ (row.deletedAt # 0) = n.isDeleted

(* C12: the device being the only writer of its edits, once a sync pass after the
   offline edits has gone through the queue without an error, every note edited
   offline has on the server the version and the deleted flag it would have after
   the same operations issued online. *)
C12_ReplayEqualsOnline ==
    [][ \A d \in Devices : PassReplayed(d) =>
            \A id \in DOMAIN local[d] :
                EditedOffline(local[d][id]) =>
                    \E i \in DOMAIN notes' : AsIssuedOnline(local[d][id], notes'[i]) ]_vars

(* the step sends the request of a queued entry, and that entry *)
SendsQueued(d) ==
    /\ flow'[d].kind = "replay"
    /\ reqs'[d].stage = "sent"
    /\ replay'[d] # replay[d]
Sent(d) == replay'[d].items[replay'[d].at]

(* the notes of which an entry has failed so far in the running pass: the entries
   the loop is past whose row counts one more failure than the entry the pass read *)
FailedInPass(d) ==
    { replay[d].items[i].note_id : i \in { j \in 1..(replay[d].at - 1) :
          syncQueue[d][replay[d].items[j].id].retry_count > replay[d].items[j].retry_count } }

(* the rows enqueued before the entry for the same note that are still pending *)
EarlierPending(q, item) ==
    { i \in DOMAIN q : /\ q[i].id < item.id
                       /\ q[i].note_id = item.note_id
                       /\ q[i].status = "pending" }

(* C13: a queued operation is sent only when no operation for the same note has
   failed earlier in the same pass and no operation enqueued earlier for the same
   note is still pending. *)
C13_NoReorderPerNote ==
    [][ \A d \in Devices : SendsQueued(d) =>
            /\ Sent(d).note_id \notin FailedInPass(d)'
            /\ EarlierPending(syncQueue'[d], Sent(d)) = {} ]_vars

(* the step is the one in which the call of a queued entry settles, and that entry *)
SettlesQueued(d) ==
    /\ flow[d].kind = "replay"
    /\ reqs[d].stage \in {"responded", "failed"}
    /\ replay'[d] # replay[d]
Settled(d) == replay[d].items[replay[d].at]

(* the step requests the delta: 'sync-request' on the socket or the GET of performHttpSync *)
RequestsDelta(d) ==
    \/ EmitsSyncRequest(d)
    \/ flow'[d].kind = "httpSync" /\ reqs'[d].stage = "sent" /\ reqs'[d].op = "GET"

(* C14: when the call of a queued entry fails, the entry is marked and the pass goes
   on: the next entry the pass read is sent in the same step, and after the last
   entry the delta is requested. *)
C14_FailureIsolated ==
    [][ \A d \in Devices :
            (SettlesQueued(d) /\ ~AxiosResolves(reqs[d])) =>
                IF replay[d].at < Len(replay[d].items)
                THEN /\ SendsQueued(d)
                     /\ Sent(d) = replay[d].items[replay[d].at + 1]
                ELSE RequestsDelta(d) ]_vars

(* an entry has failed, a later entry of another note was sent and acknowledged in
   the same pass, and the delta request of that pass has been answered *)
C14_Witness ==
    \E d \in Devices : \E i, j \in DOMAIN syncQueue[d] :
        /\ i < j
        /\ syncQueue[d][i].status = "pending" /\ syncQueue[d][i].retry_count > 0
        /\ syncQueue[d][j].note_id # syncQueue[d][i].note_id
        /\ syncQueue[d][j].status = "completed"
        /\ flow[d].kind = "httpSync" /\ reqs[d].stage = "responded" /\ reqs[d].status = 200

(* C15: an entry whose call has failed 3 times is terminally failed and is not sent
   again, so no entry is sent more than 3 times. *)
C15_RetryCeiling ==
    [][ \A d \in Devices : SendsQueued(d) => Sent(d).retry_count < RetryCeiling ]_vars

(* the entry of getSyncQueue() stands for that operation on that note *)
EntryFor(d, e, op, id) ==
    IF Offline(d) THEN e.operation_type = op /\ e.note_id = id
    ELSE e.operation = op /\ e.noteId = id

(* the entries a drain returns after the step *)
PendingAfter(d) ==
    LET q == StoreGetSyncQueue(d, syncQueue[d])' IN { q[i] : i \in DOMAIN q }

(* the step is the one in which the server's acknowledgement of a deleteNote call
   reaches the device *)
AcknowledgesDelete(d, id) ==
    /\ flow[d].kind = "delete" /\ flow[d].note.id = id
    /\ AxiosResolves(reqs[d]) /\ flow'[d] = NoFlow

(* the status of a sync_queue row changes only as the queue's life cycle allows: to
   completed in the step that acknowledges its entry, to failed in a step in which
   its call fails at the retry ceiling, and never once it is completed or failed *)
RowLifeCycle(d) ==
    \A i \in DOMAIN syncQueue[d] :
        LET row == syncQueue[d][i]
            after == syncQueue'[d][i]
        IN after.status # row.status =>
              /\ row.status = "pending"
              /\ SettlesQueued(d) /\ Settled(d).id = row.id
              /\ after.status = "completed" => AxiosResolves(reqs[d])
              /\ after.status = "failed" =>
                    ~AxiosResolves(reqs[d]) /\ after.retry_count >= RetryCeiling

(* C16: an entry leaves the pending set only on its acknowledgement or at the retry
   ceiling, an entry that has left it is not sent again, and once an operation is
   acknowledged its entry is no longer pending. *)
C16_QueueLifeCycle ==
    [][ \A d \in Devices :
            /\ Offline(d) => RowLifeCycle(d)
            /\ SendsQueued(d) => syncQueue'[d][Sent(d).id].status = "pending"
            /\ (SettlesQueued(d) /\ AxiosResolves(reqs[d])) =>
                  \A e \in PendingAfter(d) : e.id # Settled(d).id
            /\ \A id \in DOMAIN local[d] :
                  AcknowledgesDelete(d, id) =>
                      \A e \in PendingAfter(d) : ~EntryFor(d, e, "delete", id) ]_vars

----------------------------------------------------------------------------
(* Sync coordinator *)

(* the step starts a sync pass: isSyncing is raised, or a pass that runs to its end
   within the step emits its 'sync-request' *)
StartsPass(d) ==
    \/ ~isSyncing[d] /\ isSyncing'[d]
    \/ flow[d].kind # "replay" /\ EmitsSyncRequest(d)

(* the step is the 'connect' handler of the device's socket *)
Connects(d) == sock[d].phase = "connecting" /\ sock'[d].phase = "connected"

(* the step leaves the device's sync state as it is: nothing is sent, stored or set
   aside for later *)
NoSyncEffect(d) ==
    /\ isSyncing'[d] = isSyncing[d]
    /\ lastSync'[d] = lastSync[d]
    /\ syncQueue'[d] = syncQueue[d]
    /\ local'[d] = local[d]
    /\ replay'[d] = replay[d]
    /\ reqs'[d] = reqs[d] /\ flow'[d] = flow[d]
    /\ \A i \in DOMAIN toServer'[sock'[d].id] : toServer'[sock'[d].id][i].type # "sync-request"
    /\ Event("syncStarted", 0) \notin events'[d]

(* C17: a sync pass starts only while the device is online and no pass is running;
   a pass requested by the 'connect' handler while one is running has no effect, and
   the end of a pass starts no other. *)
C17_OnePassAtATime ==
    [][ \A d \in Devices :
            /\ StartsPass(d) => isOnline'[d] /\ ~isSyncing[d]
            /\ (Connects(d) /\ ~isOnline[d] /\ isSyncing[d]) => NoSyncEffect(d)
            /\ (isSyncing[d] /\ ~isSyncing'[d]) =>
                  reqs'[d].stage = "free" /\ flow'[d] = NoFlow ]_vars

(* the first socket has connected and dropped and the second has connected, all
   while the HTTP pass begun at start-up was waiting for its answer: the pass the
   second 'connect' handler requested was dropped *)
C17_Witness ==
    \E d \in Devices :
        /\ Connected(d) /\ sock[d].id > 1
        /\ 1 \in srvOpen \/ sockUser[1] # "none" \/ toServer[1] # << >>
        /\ isSyncing[d] /\ flow[d].kind = "httpSync"
        /\ Len(toServer[sock[d].id]) = 1
        /\ toServer[sock[d].id][1].type = "register-device"

(* the step ends a sync pass: isSyncing is lowered, or a pass that runs to its end
   within the step emits its 'sync-request' *)
EndsPass(d) ==
    \/ isSyncing[d] /\ ~isSyncing'[d]
    \/ flow[d].kind # "replay" /\ EmitsSyncRequest(d)

(* the step is the 'disconnect' handler of the device's socket *)
Disconnects(d) == sock[d].phase = "connected" /\ sock'[d].phase = "closed"

(* the transitions of the Offline / Online-Idle / Syncing machine, and the events
   that go with them *)
CoordinatorSteps ==
    [][ \A d \in Devices :
            /\ Connects(d) => isOnline'[d]
            /\ Disconnects(d) => ~isOnline'[d]
            /\ isOnline'[d] # isOnline[d] => Connects(d) \/ Disconnects(d)
            /\ StartsPass(d) => Event("syncStarted", 0) \in events'[d]
            /\ EndsPass(d) => Event("syncCompleted", 0) \in events'[d]
            /\ (events'[d] # events[d] /\ Event("syncCompleted", 0) \in events'[d])
                  => EndsPass(d)
            /\ (events'[d] # events[d] /\ Event("syncStarted", 0) \in events'[d])
                  => StartsPass(d) ]_vars

(* C18: a connect makes the device online and a disconnect offline; 'syncStarted' is
   notified exactly by the step that starts a pass and 'syncCompleted' exactly by
   the step that ends one; and, every call settling, a device that is syncing
   always comes to a state where it is not. *)
C18_SyncingAlwaysLeft ==
    /\ CoordinatorSteps
    /\ \A d \in Devices : isSyncing[d] ~> ~isSyncing[d]

(* a pass whose delta request failed has left the Syncing state *)
C18_Witness ==
    \E d \in Devices :
        /\ ~isSyncing[d] /\ flow[d] = NoFlow
        /\ events[d] = {Event("syncError", 0), Event("syncCompleted", 0)}

(* ---- Failures of the calls of a pass ---- *)

(* the step handles the failure, without an answer, of the call of a queued entry *)
QueuedCallTimesOut(d) == SettlesQueued(d) /\ reqs[d].stage = "failed"

(* the step handles the failure, without an answer, of the GET of performHttpSync *)
DeltaCallTimesOut(d) ==
    /\ flow[d].kind = "httpSync" /\ reqs[d].stage = "failed"
    /\ flow'[d] = NoFlow

(* C19: the step of a pass that handles a call that ended without an answer leaves
   the entry of the call pending, unless the entry was at the retry ceiling, and
   leaves the checkpoint where it was. *)
C19_TimeoutRecoverable ==
    [][ \A d \in Devices :
            /\ QueuedCallTimesOut(d) =>
                  /\ Settled(d).retry_count < RetryCeiling =>
                        syncQueue'[d][Settled(d).id].status = "pending"
                  /\ lastSync'[d] = lastSync[d]
            /\ DeltaCallTimesOut(d) => lastSync'[d] = lastSync[d] ]_vars

(* the step handles the answer 401 or 403 to the call of a queued entry *)
QueuedCallDenied(d) ==
    /\ SettlesQueued(d)
    /\ reqs[d].stage = "responded" /\ reqs[d].status \in {401, 403}

(* the step notifies the listeners of something other than the start and the end
   of the pass *)
SurfacesFailure(d) ==
    events'[d] \ {Event("syncStarted", 0), Event("syncCompleted", 0)} # {}

(* C20: the step that handles the answer 401 or 403 to the call of a queued entry
   takes the entry out of the entries a later pass reads and sends, and notifies
   the listeners of the failure. *)
C20_AuthFailureFatal ==
    [][ \A d \in Devices : QueuedCallDenied(d) =>
            /\ \A e \in PendingAfter(d) : e.id # Settled(d).id
            /\ SurfacesFailure(d) ]_vars

(* ---- Local calls on notes the device does not hold ---- *)

(* the device's store has no note of that id that is not marked deleted *)
NoLiveNote(d, id) ==
    \/ id \notin DOMAIN local[d]
    \/ IF Offline(d) THEN local[d][id].deletedAt # 0 ELSE local[d][id].isDeleted

(* the step is a call of updateNote(id, p), of deleteNote(id) *)
UpdateNoteCall(d, id, p) == DevUpdateNote(d, id, p) \/ DevUpdateNoteThrows(d, id, p)
DeleteNoteCall(d, id) == DevDeleteNote(d, id) \/ DevDeleteNoteReturns(d, id)

(* the step enqueues nothing, sends nothing, notifies nobody and stores nothing *)
NothingDone(d) ==
    /\ syncQueue'[d] = syncQueue[d]
    /\ reqs'[d] = reqs[d]
    /\ flow'[d] = flow[d]
    /\ local'[d] = local[d]
    /\ events'[d] = {}

(* C21: updateNote for an id with no live local note throws 'Note not found' and
   enqueues, sends, notifies and stores nothing; deleteNote for such an id does
   nothing either. *)
C21_FailFastLocally ==
    [][ \A d \in Devices, id \in CallIds :
            NoLiveNote(d, id) =>
                /\ \A p \in DevPayloads : UpdateNoteCall(d, id, p) =>
                       raised'[d] = "Note not found" /\ NothingDone(d)
                /\ DeleteNoteCall(d, id) => NothingDone(d) ]_vars

(* updateNote has thrown on a device that holds a deleted note and has nothing in
   flight *)
C21_Witness ==
    \E d \in Devices :
        /\ raised[d] = "Note not found"
        /\ events[d] = {} /\ flow[d] = NoFlow
        /\ \E id \in DOMAIN local[d] : local[d][id].isDeleted

(* ---- Fan-out of accepted writes ---- *)

(* the step commits the write of the request on connection k *)
Accepts(k) ==
    /\ clock' = clock + 1
    /\ reqs[k].stage # "responded" /\ reqs'[k].stage = "responded"

(* the push that goes with an accepted POST, PUT, DELETE *)
PushType(op) ==
    IF op = "POST" THEN "note:created"
    ELSE IF op = "PUT" THEN "note:updated" ELSE "note:deleted"

(* the note an accepted request wrote *)
Written(k) == IF reqs[k].op = "POST" THEN Cardinality(DOMAIN notes) + 1 ELSE reqs[k].id

(* the socket is a session the server tracks for the user, and still connected *)
RegisteredFor(s, u) == s \in srvOpen /\ s \in userSessions[u] /\ TransportUp(s)

(* the step emits one message to the socket: the push of that type for that note *)
Pushed(s, type, id) ==
    /\ Len(toClient'[s]) = Len(toClient[s]) + 1
    /\ SubSeq(toClient'[s], 1, Len(toClient[s])) = toClient[s]
    /\ toClient'[s][Len(toClient'[s])].type = type
    /\ toClient'[s][Len(toClient'[s])].note.id = id

(* the socket of the device whose axiosClient owns the connection, if any *)
OriginSocks(k) == { sock[d].id : d \in { e \in Devices : e = k } }

(* C22: every accepted create, update or delete by user U is pushed, with its own
   message type, to every connected session the server tracks for U other than
   the originator's, and nothing is sent to a session the server does not track
   for U. *)
C22_FanOutScope ==
    [][ \A k \in Conns : Accepts(k) =>
            \A s \in SockIds :
                /\ (RegisteredFor(s, reqs[k].user) /\ s \notin OriginSocks(k))
                      => Pushed(s, PushType(reqs[k].op), Written(k))
                /\ s \notin userSessions[reqs[k].user] => toClient'[s] = toClient[s] ]_vars

(* a push for a note of u1 is the last message of a session of u1, while a
   connected session registered for u2 only has been sent no note push *)
C22_Witness ==
    \E s, t \in PeerSocks :
        /\ RegisteredFor(s, "u1") /\ toClient[s] # << >>
        /\ toClient[s][Len(toClient[s])].type \in {"note:created", "note:updated", "note:deleted"}
        /\ notes[toClient[s][Len(toClient[s])].note.id].owner = "u1"
        /\ RegisteredFor(t, "u2") /\ t \notin userSessions["u1"]
        /\ \A i \in DOMAIN toClient[t] : toClient[t][i].type = "devices-updated"

(* C23: a step that commits a write sent by the device sends nothing to the
   device's own socket. *)
C23_NoEcho ==
    [][ \A d \in Devices : Accepts(d) =>
            \A s \in OriginSocks(d) : toClient'[s] = toClient[s] ]_vars

(* ---- A note created offline ---- *)

(* the stored object is a note createNote made that the server has not acknowledged *)
CreatedOffline(n) == n.id < 0 /\ n.localOnly /\ ~n.isDeleted

(* the server row of a create of that note: same title and content, version 1 *)
StoredAsCreated(n, row, u) ==
    /\ row.owner = u
    /\ row.title = n.title /\ row.content = n.content
    /\ row.version = 1

(* the step is the device's handler of a 'note:created' push *)
HandlesNoteCreated(d) ==
    Incoming(d, "note:created") /\ toClient' = Delivered(d) /\ sock' = sock

(* C24: once the sync pass of a device that went online has gone through its queue,
   every note the device created offline is on the server with version 1; the push
   of an accepted create carries version 1; and the session that handles the push
   holds the note as synced, with the pushed version, without emitting a
   'sync-request'. *)
C24_OfflineCreateReachesPeers ==
    [][ /\ \A d \in Devices : PassReplayed(d) =>
              \A id \in DOMAIN local[d] :
                  CreatedOffline(local[d][id]) =>
                      \E i \in DOMAIN notes' : StoredAsCreated(local[d][id], notes'[i], UserOf(d))
        /\ \A k \in Conns : (Accepts(k) /\ reqs[k].op = "POST") =>
              \A s \in SockIds :
                  (RegisteredFor(s, reqs[k].user) /\ s \notin OriginSocks(k)) =>
                      /\ Pushed(s, "note:created", Written(k))
                      /\ toClient'[s][Len(toClient'[s])].note.version = 1
        /\ \A d \in Devices : HandlesNoteCreated(d) =>
              LET pushed == Head(toClient[sock[d].id]).note
              IN /\ pushed.id \in DOMAIN local'[d]
                 /\ local'[d][pushed.id].version = pushed.version
                 /\ ~local'[d][pushed.id].localOnly
                 /\ ~EmitsSyncRequest(d) ]_vars

(* ---- Device sessions ---- *)

(* the server has handled every connect, register and disconnect so far: each socket
   it holds open is still connected and has no 'register-device' waiting *)
SessionsSettled ==
    \A s \in srvOpen :
        /\ TransportUp(s)
        /\ \A i \in DOMAIN toServer[s] : toServer[s][i].type # "register-device"

(* the open sockets registered for the device *)
OpenChannels(dev) == { s \in srvOpen : sockDevice[s] = dev }

(* C25: once the server has handled every register and disconnect, a device is
   recorded active exactly when one of the open sockets is registered for it, the
   session tracking then names such a socket, every open registered socket is in
   the room and the session set of its user, and no closed socket is in a room. *)
C25_ActiveIffRegisteredChannel ==
    SessionsSettled =>
        /\ \A dev \in DOMAIN deviceDb :
              /\ deviceDb[dev].isActive <=> OpenChannels(dev) # {}
              /\ OpenChannels(dev) # {} =>
                    /\ dev \in DOMAIN deviceSessions
                    /\ deviceSessions[dev] \in OpenChannels(dev)
              /\ OpenChannels(dev) = {} => dev \notin DOMAIN deviceSessions
        /\ \A s \in srvOpen : sockUser[s] # "none" =>
              s \in rooms[sockUser[s]] /\ s \in userSessions[sockUser[s]]
        /\ \A u \in Users : rooms[u] \subseteq srvOpen

(* ---- C26 ---- *)
(* the step applies the second copy of the response: one message was left and it is consumed *)
SecondApplication(d) ==
    /\ sock[d].phase = "connected"
    /\ Len(toClient[sock[d].id]) = 1
    /\ toClient'[sock[d].id] = << >>

(* C26: applying the same sync response a second time leaves the local store as the
   first application left it: the same ids (no note is added twice), the same
   objects, no version lower than before, and the same checkpoint *)
C26_MergeIdempotent ==
    [][\A d \in Devices : SecondApplication(d) =>
          /\ DOMAIN local'[d] = DOMAIN local[d]
          /\ \A i \in DOMAIN local[d] : local'[d][i].version >= local[d][i].version
          /\ local'[d] = local[d]
          /\ lastSync'[d] = lastSync[d]]_vars

(* both copies applied, and the response carried a note that the merge stored *)
C26_Witness ==
    /\ toClient[1] = << >>
    /\ lastSync["d1"] = 1
    /\ \E i \in DOMAIN local["d1"] : local["d1"][i].title = "a"

(* ---- C27 ---- *)
(* the note carries a deletion mark: the flag deleteNote sets locally, or the
   deletedAt of the server's row *)
SoftDeleted(n) == n.isDeleted \/ n.deletedAt # 0

(* C27: whatever was deleted locally, pushed as deleted or merged from a sync
   response, getAllNotes() returns no note that is soft-deleted *)
C27_ListHidesDeleted ==
    \A d \in Devices : \A n \in StoreGetAllNotes(d, local[d]) : ~SoftDeleted(n)

(* ---- C28 ---- *)
(* C28: the version a device stores for a note of the server does not exceed the
   highest version the server has confirmed to the device; no version the server
   has confirmed is above the version of the server's row, so the stored version
   is at most that *)
C28_LocalVersionConfirmed ==
    \A d \in Devices : \A id \in DOMAIN local[d] \cap DOMAIN notes :
        local[d][id].version <= notes[id].version

(* ---- C29 ---- *)
(* the transport of a connected socket is lost: the 'disconnect' handler runs with a
   reason other than 'io client disconnect' *)
TransportLost(d) == Connected(d) /\ sock'[d].phase = "closed"

(* the app disconnects a connected socket itself: the socket is dropped or replaced *)
LocalDisconnect(d) == Connected(d) /\ sock'[d] # sock[d] /\ sock'[d].phase # "closed"

(* the reconnect timer runs out *)
TimerFires(d) == reconnectTimer[d] /\ ~reconnectTimer'[d]

(* a new socket is opened in place of the one the device had *)
ReconnectAttempt(d) == sock'[d].phase = "connecting" /\ sock'[d].id # sock[d].id

(* a socket connects while isOnline is false *)
ReconnectsAfterOffline(d) ==
    sock[d].phase = "connecting" /\ sock'[d].phase = "connected" /\ ~isOnline[d]

(* a pass over the socket starts in this step: syncStarted is notified and a
   'sync-request' is emitted on the socket that has just connected *)
PassStarts(d) ==
    /\ Event("syncStarted", 0) \in events'[d]
    /\ \E i \in DOMAIN toServer'[sock'[d].id] :
          toServer'[sock'[d].id][i].type = "sync-request"

ReconnectPolicySteps ==
    \A d \in Devices :
        /\ TransportLost(d) => reconnectTimer'[d]
        /\ LocalDisconnect(d) => reconnectTimer'[d] = reconnectTimer[d]
        /\ TimerFires(d) => IF Connected(d) THEN sock'[d] = sock[d] ELSE ReconnectAttempt(d)
        /\ ReconnectsAfterOffline(d) => isSyncing[d] \/ PassStarts(d)

(* C29: a disconnect that is not a deliberate local one schedules a reconnection
   attempt, which is made when the fixed delay has run out and the socket is still
   not connected; a deliberate local disconnect schedules none; and a reconnect
   after an offline period starts a sync pass at once (unless one is running) *)
C29_ReconnectionPolicy ==
    /\ [][ReconnectPolicySteps]_vars
    /\ \A d \in Devices : reconnectTimer[d] ~> (~reconnectTimer[d] \/ nextSock = MaxSocks)

(* the socket opened after the first one was lost has just connected, and the
   'connect' handler has started a pass that asks the server for the delta *)
C29_Witness ==
    /\ sock["d1"] = [id |-> 2, phase |-> "connected"]
    /\ ~reconnectTimer["d1"]
    /\ events["d1"] = {Event("network", 0), Event("syncStarted", 0), Event("syncCompleted", 0)}
    /\ \E i \in DOMAIN toServer[2] : toServer[2][i].type = "sync-request"

(* ---- C30 ---- *)
(* the device has just reconnected and the pass of its 'connect' handler has run to
   its end *)
ReconnectedAndSynced(d) ==
    /\ Connected(d) /\ isOnline[d] /\ ~isSyncing[d]
    /\ {Event("network", 0), Event("syncCompleted", 0)} \subseteq events[d]

(* the device holds the server's note id as deleted by its user *)
DeletedOnDevice(d, id) ==
    /\ id \in DOMAIN local[d] \cap DOMAIN notes
    /\ local[d][id].isDeleted \/ local[d][id].deletedAt # 0

(* C30: when a device that edited and then deleted a synced note while offline has
   reconnected and synced, the delete has reached the server: the note is
   soft-deleted there, one version above the version the device counted for its
   own edits *)
C30_OfflineEditsThenDelete ==
    \A d \in Devices : \A id \in DOMAIN local[d] :
        ReconnectedAndSynced(d) /\ DeletedOnDevice(d, id) =>
            /\ notes[id].deletedAt # 0
            /\ notes[id].version = local[d][id].version + 1

(* ---- C31 ---- *)
(* the step is a call of notifyListeners *)
Notifies(d) == DevNotifyListeners(d)

(* C31: a call of notifyListeners invokes every callback that is registered when the
   call is made, each registration once and in registration order, whatever a
   callback throws, and nothing a callback throws leaves the call *)
C31_EveryListenerOnceInOrder ==
    [][\A d \in Devices : Notifies(d) =>
          /\ heard'[d].calls = syncListeners[d]
          /\ ~heard'[d].propagated]_vars

(* the same for the calls made while no registered callback unsubscribes *)
C31_WithoutUnsubscribers ==
    [][\A d \in Devices :
          (Notifies(d) /\ \A i \in DOMAIN syncListeners[d] : syncListeners[d][i] # "unsubscribes") =>
              /\ heard'[d].calls = syncListeners[d]
              /\ ~heard'[d].propagated]_vars

(* ---- C32 ---- *)
(* the call k of a device has sent a create, an update or a delete of the note id
   and the server has not answered it yet *)
MutationInFlight(k, id) ==
    /\ reqs[k].stage \notin {"free", "responded", "failed"}
    /\ reqs[k].op \in {"POST", "PUT", "DELETE"}
    /\ reqs[k].id = id

(* C32: at no time are two mutation requests of a device for the same note
   outstanding to the server *)
C32_OneMutationInFlightPerNote ==
    \A id \in DOMAIN notes : \A k1, k2 \in DevConns :
        MutationInFlight(k1, id) /\ MutationInFlight(k2, id) => k1 = k2

(* ---- C33 ---- *)
(* what a queue entry says it is: the operation and the note it is for *)
KindOf(e) ==
    IF "operation_type" \in DOMAIN e THEN e.operation_type
    ELSE IF e.operation # "" THEN e.operation ELSE e.str

NoteOf(e) == IF "note_id" \in DOMAIN e THEN e.note_id ELSE e.noteId

(* the step adds nothing to the device's queue *)
EnqueuesNothing(d) == syncQueue'[d] = syncQueue[d]

(* the step adds exactly one entry to the device's queue, of that kind for that note *)
EnqueuesOne(d, kind, id) ==
    /\ Len(syncQueue'[d]) = Len(syncQueue[d]) + 1
    /\ SubSeq(syncQueue'[d], 1, Len(syncQueue[d])) = syncQueue[d]
    /\ KindOf(syncQueue'[d][Len(syncQueue'[d])]) = kind
    /\ NoteOf(syncQueue'[d][Len(syncQueue'[d])]) = id

(* the immediate call of the suspended operation has been answered with success, or
   has failed otherwise than by a conflict *)
CallSucceeded(d, status) == reqs[d].stage = "responded" /\ reqs[d].status = status
CallFailedPlainly(d, status) ==
    reqs[d].stage = "failed" \/ (reqs[d].stage = "responded" /\ reqs[d].status \notin {status, 409})

(* the status the store keeps for a note: the sync_status column, or the localOnly
   flag that InMemoryStorage.saveNote derives from the status it is passed *)
HeldAs(d, n, status) ==
    IF Offline(d) THEN n.syncStatus = status ELSE n.localOnly = (status = "pending")

OptimisticWriteSteps ==
    \A d \in Devices :
        /\ \A id \in DOMAIN local[d], p \in DevPayloads :
              DevUpdateNote(d, id, p) =>
                  /\ StoreGetNoteById(d, local'[d], id).title = p.title
                  /\ HeldAs(d, StoreGetNoteById(d, local'[d], id), "pending")
                  /\ IF isOnline[d] THEN EnqueuesNothing(d) ELSE EnqueuesOne(d, "update", id)
        /\ \A id \in DOMAIN local[d] :
              DevDeleteNote(d, id) =>
                  /\ StoreGetNoteById(d, local'[d], id) = NoLocal
                  /\ IF isOnline[d] THEN EnqueuesNothing(d) ELSE EnqueuesOne(d, "delete", id)
        /\ DevUpdateDone(d) =>
              /\ CallSucceeded(d, 200) =>
                    /\ EnqueuesNothing(d)
                    /\ HeldAs(d, StoreGetNoteById(d, local'[d], flow[d].note.id), "synced")
              /\ CallFailedPlainly(d, 200) => EnqueuesOne(d, "update", flow[d].note.id)
        /\ DevDeleteDone(d) =>
              /\ CallSucceeded(d, 204) => EnqueuesNothing(d)
              /\ CallFailedPlainly(d, 204) => EnqueuesOne(d, "delete", flow[d].note.id)

(* C33: updateNote and deleteNote change the local store before any network call,
   the change shows through getNoteById at once, an offline or plainly failed call
   queues exactly one operation of its kind for the note, and a successful call
   queues nothing and leaves the note synced *)
C33_OptimisticWrite == [][OptimisticWriteSteps]_vars

(* ---- C34 ---- *)
(* C34: when the device is the only client that creates notes, the server holds at
   most one note for each note created on the device, also after a create whose
   answer was lost has been replayed from the queue *)
C34_CreateReplayedOnce ==
    \A d \in Devices : Cardinality(DOMAIN notes) <= created[d]

(* ---- C35 ---- *)
(* the entities the device's store holds, deleted or not *)
Entities(d) == DOMAIN local[d]

(* C35: when the device is the only client, its store holds one entity for each
   note created on it, before and after the create is confirmed and after any
   later merge: the server's copy comes back under the id the client generated *)
C35_OneEntityPerCreatedNote ==
    \A d \in Devices :
        /\ Cardinality(Entities(d)) <= created[d]
        /\ \A id \in DOMAIN notes : id \in { ClientId(n) : n \in 1..created[d] }

(* the store holds more entities than notes were created on the device *)
EntityHeldTwice == \E d \in Devices : Cardinality(Entities(d)) > created[d]

----------------------------------------------------------------------------
(* C36: queue and status stay coherent.  In every state in which no call of the
   device is awaiting an answer, a note for which the outbound queue holds a pending
   operation is not held as synced; in particular a pass that has replayed the
   first of several queued operations of a note has not marked the note synced
   while later operations of it are pending. *)
PendingOperations(d) == StoreSendable(d, syncQueue[d])

BetweenOperations(d) == flow[d] = NoFlow /\ reqs[d].stage = "free"

QueuedNotes(d) ==
    { PendingOperations(d)[i].note_id : i \in DOMAIN PendingOperations(d) }

C36_QueueAndStatusCoherent ==
    \A d \in Devices :
        BetweenOperations(d) =>
            \A id \in QueuedNotes(d) :
                id \in DOMAIN local[d] => StoreSyncStatus(d, local[d][id]) # "synced"

(* a pass has replayed an entry of a note, a later entry of the same note is
   pending and the note is held as synced *)
SyncedWithLaterEntryPending ==
    \E d \in Devices :
        /\ flow[d].kind = "replay" /\ replay[d].at > 1
        /\ LET id == replay[d].items[replay[d].at - 1].note_id
           IN /\ id \in QueuedNotes(d) \cap DOMAIN local[d]
              /\ StoreSyncStatus(d, local[d][id]) = "synced"

----------------------------------------------------------------------------
(* C37: no committed change falls into a gap between successive delta syncs.  When
   the server answers a sync-request carrying lastSyncTime T with syncTime S, every
   note of the user stamped with an updatedAt in (T, S] is among the notes of that
   answer, also when writes were committed while the request was being handled. *)
Answer(s) == toClient'[s][Len(toClient'[s])]

EmitsSyncResponse(s) ==
    /\ SrvSyncRequestEmit(s)
    /\ Len(toClient'[s]) = Len(toClient[s]) + 1

InWindow(n, m, S) ==
    /\ n.owner = m.userId
    /\ n.updatedAt > m.lastSyncTime
    /\ n.updatedAt <= S

Contains(ns, id) == \E i \in DOMAIN ns : ns[i].id = id

C37_NoGapBetweenDeltas ==
    [][\A s \in SockIds :
          EmitsSyncResponse(s) =>
              \A id \in DOMAIN notes :
                  InWindow(notes[id], Head(toServer[s]), Answer(s).syncTime)
                      => Contains(Answer(s).notes, id)]_vars

(* the same for the notes that are not soft-deleted *)
C37_NoGapForLiveNotes ==
    [][\A s \in SockIds :
          EmitsSyncResponse(s) =>
              \A id \in DOMAIN notes :
                  (notes[id].deletedAt = 0
                   /\ InWindow(notes[id], Head(toServer[s]), Answer(s).syncTime))
                      => Contains(Answer(s).notes, id)]_vars

----------------------------------------------------------------------------
(* C38: session tracking survives reconnect interleavings.  After every register
   and disconnect the server handles, each entry of deviceSessions names a socket
   that is still connected and whose latest registration named that device; and
   the disconnect of an older socket of a device removes neither the entry nor the
   active mark of the database record of the device's newer registered socket. *)
EntriesNameLiveSockets ==
    \A dev \in DOMAIN deviceSessions' :
        /\ deviceSessions'[dev] \in srvOpen'
        /\ sockDevice'[deviceSessions'[dev]] = dev

(* the socket the tracking holds for the device is another one, still connected *)
NewerSocketOf(dev, s) ==
    /\ dev \in DOMAIN deviceSessions
    /\ deviceSessions[dev] # s
    /\ deviceSessions[dev] \in srvOpen
    /\ sockDevice[deviceSessions[dev]] = dev

KeepsNewerSocket(dev) ==
    /\ dev \in DOMAIN deviceSessions'
    /\ deviceSessions'[dev] = deviceSessions[dev]
    /\ (dev \in DOMAIN deviceDb /\ deviceDb[dev].sessionToken = deviceSessions[dev])
           => deviceDb'[dev].isActive = deviceDb[dev].isActive

C38_SessionTrackingSurvivesReconnect ==
    [][\A s \in SockIds :
          /\ (SrvRegister(s) \/ SrvDisconnect(s)) => EntriesNameLiveSockets
          /\ SrvDisconnect(s) =>
                \A dev \in DOMAIN deviceSessions :
                    (sockDevice[s] = dev /\ NewerSocketOf(dev, s)) => KeepsNewerSocket(dev)]_vars

(* the disconnect of a socket whose device has registered a newer one is handled *)
LateDisconnect ==
    \E s \in srvOpen :
        /\ ~TransportUp(s)
        /\ sockDevice[s] # "none"
        /\ NewerSocketOf(sockDevice[s], s)

----------------------------------------------------------------------------
(* C39: a channel is bound to at most one user's broadcast group.  A socket that
   has registered is in the room and in the session set of the user of its latest
   'register-device' only, so it is sent no push of another user's notes. *)
GroupsOf(s) == { u \in Users : s \in rooms[u] \/ s \in userSessions[u] }

C39_OneBroadcastGroupPerChannel ==
    \A s \in srvOpen :
        sockUser[s] # "none" => GroupsOf(s) \subseteq {sockUser[s]}

(* a create committed for one user sends nothing to a socket whose latest
   registration, already handled, names another user *)
PushesStayWithinUser ==
    [][\A k \in Conns, s \in srvOpen :
          (/\ SrvCreate(k)
           /\ sockUser[s] \notin {"none", reqs[k].user}
           /\ toServer[s] = << >>)
              => toClient'[s] = toClient[s]]_vars

----------------------------------------------------------------------------
(* C40: a device's own accepted write never becomes a conflict on that device.
   When the device handles the note:updated or note:deleted push produced by an
   updateNote or deleteNote of its own that the server accepted, before or after
   the answer of that call has arrived, the step marks no note conflict and
   delivers no 'conflict' event. *)
HeldInConflict(d, n) == IF Offline(d) THEN n.syncStatus = "conflict" ELSE n.hasConflict

(* the answer of the device's call for the note is on its way: the server accepted it *)
AcceptedAwaitingAnswer(d, m) ==
    /\ flow[d].kind \in {"update", "delete"}
    /\ reqs[d].stage = "responded" /\ reqs[d].status \in {200, 204}
    /\ reqs[d].id = m.note.id
    /\ (m.type = "note:updated") = (reqs[d].op = "PUT")

(* the answer has been handled: the store holds what the server answered *)
AcceptedAndAnswered(d, m) ==
    /\ flow[d] = NoFlow
    /\ m.note.id \in DOMAIN local[d]
    /\ IF m.type = "note:updated"
       THEN local[d][m.note.id].version = m.note.version
       ELSE local[d][m.note.id].isDeleted \/ local[d][m.note.id].deletedAt # 0

OwnPush(d, m) == AcceptedAwaitingAnswer(d, m) \/ AcceptedAndAnswered(d, m)

NoNewConflict(d) ==
    /\ \A e \in events'[d] : e.ev # "conflict"
    /\ \A id \in DOMAIN local'[d] :
          HeldInConflict(d, local'[d][id])
              => (id \in DOMAIN local[d] /\ HeldInConflict(d, local[d][id]))

C40_OwnWriteNeverConflicts ==
    [][\A d \in Devices :
          (Handles(d, {"note:updated", "note:deleted"})
           /\ OwnPush(d, Head(toClient[sock[d].id])))
              => NoNewConflict(d)]_vars

(* the push of the device's accepted update has been handled while the answer of
   the PUT is still on its way *)
C40_Witness ==
    \E d \in Devices :
        /\ flow[d].kind = "update"
        /\ reqs[d].stage = "responded" /\ reqs[d].status = 200
        /\ events[d] = {Event("noteUpdated", reqs[d].id)}
        /\ Connected(d) /\ toClient[sock[d].id] = << >>
        /\ reqs[d].id \in DOMAIN local[d]
        /\ local[d][reqs[d].id].version = reqs[d].body.version

====
